---- MODULE Spec2Model ----
(***************************************************************************)
(* A model of dataflux_core: the work-stealing listing engine              *)
(* (fast_list.py), its key-range splitter (range_splitter.py) and the      *)
(* compose/download/decompose engine (download.py).                        *)
(*                                                                         *)
(* Strings are sequences of character ordinals (naturals >= 1, ordered as  *)
(* Python orders code points).  Python's None is the sequence <<0>>, which *)
(* is no string.                                                           *)
(***************************************************************************)
EXTENDS Integers, Sequences, FiniteSets, TLC

(***************************************************************************)
(* Characters.  '/' sorts before the letters, as in ASCII.                 *)
(***************************************************************************)
Slash == 1
ChA == 2
ChB == 3
ChC == ChB + 1
ChD == ChC + 1
ChE == ChD + 1

None == <<0>>

(***************************************************************************)
(* Python string comparison (lexicographic by code point).                 *)
(***************************************************************************)
RECURSIVE StrLess(_, _)
StrLess(s, t) ==
    IF t = <<>> THEN FALSE
    ELSE IF s = <<>> THEN TRUE
    ELSE IF Head(s) # Head(t) THEN Head(s) < Head(t)
    ELSE StrLess(Tail(s), Tail(t))

StrLeq(s, t) == s = t \/ StrLess(s, t)

StartsWith(text, prefix) ==
    /\ Len(prefix) <= Len(text)
    /\ SubSeq(text, 1, Len(prefix)) = prefix

\* fast_list.remove_prefix
remove_prefix(text, prefix) ==
    IF StartsWith(text, prefix)
    THEN SubSeq(text, Len(prefix) + 1, Len(text))
    ELSE text

CharsOf(s) == {s[i] : i \in DOMAIN s}

SetMin(S) == CHOOSE m \in S : \A x \in S : m <= x

\* Python's sorted() on a set of characters.
RECURSIVE sorted_chars(_)
sorted_chars(S) ==
    IF S = {} THEN <<>>
    ELSE <<SetMin(S)>> \o sorted_chars(S \ {SetMin(S)})

(***************************************************************************)
(* RangeSplitter.  A splitter is a record of alphabet_set and              *)
(* sorted_alphabet (a sorted sequence of characters); alphabet_map is the  *)
(* index of a character in sorted_alphabet.  alphabet_set is assigned      *)
(* once, in __init__, and never again.                                     *)
(***************************************************************************)
\* ListWorker.default_alph = "ab"
default_alph == <<ChA, ChB>>

\* range_splitter.new_rangesplitter with RangeSplitter.__init__ (a non-empty
\* alphabet; the empty one raises ValueError).
new_rangesplitter(alphabet) ==
    [alphabet_set |-> CharsOf(alphabet),
     sorted_alphabet |-> sorted_chars(CharsOf(alphabet))]

\* alphabet_map[c]: the 0-based index of c in sorted_alphabet.
alphabet_map(sorted_alphabet, c) ==
    Cardinality({i \in DOMAIN sorted_alphabet : sorted_alphabet[i] < c})

\* range_splitter.get_char_or_default (0-based index)
get_char_or_default(characters, index, default_char) ==
    IF index < 0 \/ index >= Len(characters)
    THEN default_char
    ELSE characters[index + 1]

Max(a, b) == IF a >= b THEN a ELSE b

\* RangeSplitter.is_range_equal_with_padding
is_range_equal_with_padding(sorted_alphabet, start_range, end_range) ==
    IF Len(end_range) = 0 THEN FALSE
    ELSE LET longest == Max(Len(start_range), Len(end_range))
             smallest_char == sorted_alphabet[1]
         IN \A i \in 0 .. (longest - 1) :
                get_char_or_default(start_range, i, smallest_char)
                    = get_char_or_default(end_range, i, smallest_char)

\* RangeSplitter.add_characters_to_alphabet: the splitter after the call.
\* The union is taken with alphabet_set, which still holds the constructor's
\* characters; sorted_alphabet is left alone when the sizes agree.
add_characters_to_alphabet(splitter, characters) ==
    LET new_alphabet == splitter.alphabet_set \cup CharsOf(characters)
    IN IF Cardinality(new_alphabet) # Cardinality(splitter.alphabet_set)
       THEN [splitter EXCEPT !.sorted_alphabet = sorted_chars(new_alphabet)]
       ELSE splitter

\* A minimal-length search that already stops when the difference reaches
\* num_splits.
RECURSIVE min_int_range_loop_inclusive(_, _, _, _, _, _, _)
min_int_range_loop_inclusive(sorted_alphabet, start_range, end_range, num_splits, i, start_int0, end_int0) ==
    LET alphabet_len == Len(sorted_alphabet)
        start_char == sorted_alphabet[1]
        end_char == sorted_alphabet[alphabet_len]
        end_default_char == IF Len(end_range) = 0 THEN end_char ELSE start_char
        start_int == start_int0 * alphabet_len
                        + alphabet_map(sorted_alphabet,
                              get_char_or_default(start_range, i, start_char))
        end_int == end_int0 * alphabet_len
                        + alphabet_map(sorted_alphabet,
                              get_char_or_default(end_range, i, end_default_char))
        difference == end_int - start_int
    IN IF difference >= num_splits
       THEN [diverges |-> FALSE, start_int |-> start_int,
             end_int |-> end_int, min_len |-> i + 1]
       ELSE IF /\ i >= Len(start_range)
               /\ i >= Len(end_range)
               /\ (difference <= 0 \/ alphabet_len = 1)
       THEN [diverges |-> TRUE, start_int |-> start_int,
             end_int |-> end_int, min_len |-> i + 1]
       ELSE min_int_range_loop_inclusive(sorted_alphabet, start_range,
                                         end_range, num_splits, i + 1,
                                         start_int, end_int)

\* RangeSplitter.string_to_minimal_int_range: the loop `for i in count(0)`.
\* The loop leaves only when end_int - start_int > num_splits.  Once i is
\* past both strings the difference d becomes d * alphabet_len + (pad
\* difference); with d = 0 and equal pads, or d < 0, it never exceeds
\* num_splits, and neither does it with a one-character alphabet: the call
\* does not return (diverges |-> TRUE).
RECURSIVE min_int_range_loop(_, _, _, _, _, _, _)
min_int_range_loop(sorted_alphabet, start_range, end_range, num_splits, i, start_int0, end_int0) ==
    LET alphabet_len == Len(sorted_alphabet)
        start_char == sorted_alphabet[1]
        end_char == sorted_alphabet[alphabet_len]
        end_default_char == IF Len(end_range) = 0 THEN end_char ELSE start_char
        start_pos == alphabet_map(sorted_alphabet,
                        get_char_or_default(start_range, i, start_char))
        end_pos == alphabet_map(sorted_alphabet,
                        get_char_or_default(end_range, i, end_default_char))
        start_int == start_int0 * alphabet_len + start_pos
        end_int == end_int0 * alphabet_len + end_pos
        difference == end_int - start_int
    IN IF difference > num_splits
       THEN [diverges |-> FALSE, start_int |-> start_int,
             end_int |-> end_int, min_len |-> i + 1]
       ELSE IF /\ i >= Len(start_range)
               /\ i >= Len(end_range)
               /\ (\/ difference < 0
                   \/ (difference = 0 /\ Len(end_range) # 0)
                   \/ alphabet_len = 1)
       THEN [diverges |-> TRUE, start_int |-> start_int,
             end_int |-> end_int, min_len |-> i + 1]
       ELSE min_int_range_loop(sorted_alphabet, start_range, end_range,
                               num_splits, i + 1, start_int, end_int)

string_to_minimal_int_range(sorted_alphabet, start_range, end_range, num_splits) ==
    min_int_range_loop(sorted_alphabet, start_range, end_range, num_splits, 0, 0, 0)

\* RangeSplitter.int_to_string: string_len digits, least significant first,
\* then reversed.
RECURSIVE int_to_string(_, _, _)
int_to_string(sorted_alphabet, split_point, string_len) ==
    IF string_len = 0 THEN <<>>
    ELSE LET alphabet_len == Len(sorted_alphabet)
         IN int_to_string(sorted_alphabet, split_point \div alphabet_len,
                          string_len - 1)
            \o <<sorted_alphabet[(split_point % alphabet_len) + 1]>>

(***************************************************************************)
(* generate_splits divides with Python's `/`: range_diff / range_interval  *)
(* is the IEEE binary64 number nearest the quotient, and Fraction() of it  *)
(* is that number exactly.  float_rounds_down(a, b) says whether that      *)
(* number is below a / b; it is found by long division, keeping            *)
(* FloatMantissaBits significant bits, the round bit and the sticky rest.  *)
(***************************************************************************)
FloatMantissaBits == 53

\* Number of bits of a positive integer n (0 for n = 0).
RECURSIVE bit_length(_)
bit_length(n) == IF n = 0 THEN 0 ELSE 1 + bit_length(n \div 2)

\* r: remainder (< b); kept: significant bits produced so far; lsb: the last
\* of them.  Returns TRUE iff rounding to nearest-even lowers the value.
RECURSIVE float_division_bits(_, _, _, _)
float_division_bits(r, b, kept, lsb) ==
    IF r = 0 THEN FALSE
    ELSE LET bit == IF 2 * r >= b THEN 1 ELSE 0
             rest == 2 * r - bit * b
         IN IF kept = FloatMantissaBits
            THEN \/ (bit = 0)
                 \/ (bit = 1 /\ rest = 0 /\ lsb = 0)
            ELSE float_division_bits(rest, b,
                    IF kept = 0 /\ bit = 0 THEN 0 ELSE kept + 1, bit)

float_rounds_down(a, b) ==
    float_division_bits(a % b, b, bit_length(a \div b), (a \div b) % 2)

\* int(start_int + Fraction(range_diff / range_interval) * i) for
\* range_diff >= 0: the floor of the product, which is the exact quotient's
\* floor unless the exact product is an integer and the float fell below.
split_point_int(start_int, range_diff, range_interval, i) ==
    LET exact == (range_diff * i) \div range_interval
    IN IF /\ (range_diff * i) % range_interval = 0
          /\ float_rounds_down(range_diff, range_interval)
       THEN start_int + exact - 1
       ELSE start_int + exact

SeqFilter(seq, keep(_)) ==
    LET RECURSIVE F(_)
        F(k) == IF k > Len(seq) THEN <<>>
                ELSE (IF keep(seq[k]) THEN <<seq[k]>> ELSE <<>>) \o F(k + 1)
    IN F(1)

\* RangeSplitter.generate_splits
generate_splits(sorted_alphabet, min_int_range, num_splits, start_range, end_range) ==
    LET start_int == min_int_range.start_int
        end_int == min_int_range.end_int
        min_len == min_int_range.min_len
        range_diff == end_int - start_int
        range_interval == num_splits + 1
        split_string(i) ==
            int_to_string(sorted_alphabet,
                split_point_int(start_int, range_diff, range_interval, i), min_len)
        is_greater_than_start(s) == Len(s) > 0 /\ StrLess(start_range, s)
        is_less_than_end(s) ==
            Len(end_range) = 0 \/ (Len(s) > 0 /\ StrLess(s, end_range))
        keep(s) == is_greater_than_start(s) /\ is_less_than_end(s)
    IN SeqFilter([i \in 1 .. num_splits |-> split_string(i)], keep)

\* RangeSplitter.split_range.  kind is "ok" (points returned), "error"
\* (ValueError) or "hang" (the call never returns); splitter is the
\* splitter after the call.
split_range(splitter, start_range, end_range, num_splits) ==
    IF num_splits < 1
    THEN [kind |-> "error", points |-> <<>>, splitter |-> splitter]
    ELSE IF Len(end_range) # 0 /\ StrLeq(end_range, start_range)
    THEN [kind |-> "ok", points |-> <<>>, splitter |-> splitter]
    ELSE IF is_range_equal_with_padding(splitter.sorted_alphabet,
                                        start_range, end_range)
    THEN [kind |-> "ok", points |-> <<>>, splitter |-> splitter]
    ELSE LET grown == add_characters_to_alphabet(splitter,
                                                 start_range \o end_range)
             min_int_range ==
                 string_to_minimal_int_range(grown.sorted_alphabet,
                                             start_range, end_range, num_splits)
         IN IF min_int_range.diverges
            THEN [kind |-> "hang", points |-> <<>>, splitter |-> grown]
            ELSE [kind |-> "ok",
                  points |-> generate_splits(grown.sorted_alphabet,
                                             min_int_range, num_splits,
                                             start_range, end_range),
                  splitter |-> grown]

(***************************************************************************)
(* The bucket.  An object is a record of name, size and storage_class; a   *)
(* listing result is the pair <<name, size>>.                              *)
(***************************************************************************)
Obj(n, sz, cls) == [name |-> n, size |-> sz, storage_class |-> cls]

\* download.COMPOSED_PREFIX, shortened to two characters ("e/").
COMPOSED_PREFIX == <<ChE, Slash>>

\* fast_list.DEFAULT_ALLOWED_CLASS
DEFAULT_ALLOWED_CLASS == {"STANDARD"}

\* The objects a bucket is drawn from: plain keys, one of another storage
\* class, one directory-like key and one under the composite prefix.
Universe ==
    { Obj(<<ChA>>, 1, "STANDARD"),
      Obj(<<ChA, ChB>>, 2, "STANDARD"),
      Obj(<<ChB>>, 2, "STANDARD"),
      Obj(<<ChC, Slash>>, 0, "STANDARD"),
      Obj(<<ChD>>, 3, "ARCHIVE"),
      Obj(<<ChE, Slash, ChA>>, 2, "STANDARD") }

\* The objects a bucket listed by several workers is drawn from; such runs
\* use the default filters.
ConcurrentUniverse == {o \in Universe : CharsOf(o.name) \subseteq {ChA, ChB, ChD}}

\* The caller's prefix (ListingController.prefix).
prefix == <<>>

\* ListingController.sort_results
sort_results == TRUE

\* Bound: the number of worker processes (max_parallelism) is 1 .. MaxWorkers.
MaxWorkers == 2

\* Bound: the page cap.  The program's ListWorker.max_results is 5000, set
\* in __init__ and again after a donation; the model scales it down.
PageCap == 2
DefaultMaxResults == PageCap

Workers == 0 .. (MaxWorkers - 1)

\* Python's sorted() on a set of strings.
StrMin(S) == CHOOSE m \in S : \A x \in S : StrLeq(m, x)

\* The objects of a set in the order of their names (object names are
\* unique in a bucket).
RECURSIVE sorted_by_name(_)
sorted_by_name(S) ==
    IF S = {} THEN <<>>
    ELSE LET o == CHOOSE x \in S : \A y \in S : StrLeq(x.name, y.name)
         IN <<o>> \o sorted_by_name(S \ {o})

SeqPrefix(seq, n) == IF Len(seq) <= n THEN seq ELSE SubSeq(seq, 1, n)

\* Bucket.list_blobs: the objects with start_offset <= name < end_offset
\* (an empty offset is no bound) whose names start with the prefix, in name
\* order, cut to max_results.
list_blobs(blobs, max_res, start_offset, end_offset, pfx) ==
    SeqPrefix(
        sorted_by_name({o \in blobs :
            /\ (start_offset = <<>> \/ StrLeq(start_offset, o.name))
            /\ (end_offset = <<>> \/ StrLess(o.name, end_offset))
            /\ StartsWith(o.name, pfx)}),
        max_res)

\* A filter that lets directory-like keys through.
passes_filters_with_directories(blob, skip_comp, list_dirs, allowed) ==
    /\ (~skip_comp \/ ~StartsWith(blob.name, COMPOSED_PREFIX))
    /\ blob.storage_class \in allowed

\* ListWorker.run, lines 216-220: the test an object must pass to be added
\* to the results.
passes_filters(blob, skip_comp, list_dirs, allowed) ==
    /\ (~skip_comp \/ ~StartsWith(blob.name, COMPOSED_PREFIX))
    /\ (list_dirs \/ blob.name[Len(blob.name)] # Slash)
    /\ blob.storage_class \in allowed

\* Python's sorted() on a set of (name, size) tuples.
TupleLeq(x, y) == StrLess(x[1], y[1]) \/ (x[1] = y[1] /\ x[2] <= y[2])

RECURSIVE sorted_results(_)
sorted_results(S) ==
    IF S = {} THEN <<>>
    ELSE LET t == CHOOSE x \in S : \A y \in S : TupleLeq(x, y)
         IN <<t>> \o sorted_results(S \ {t})

(***************************************************************************)
(* State of a listing run.                                                 *)
(***************************************************************************)
VARIABLES
    bucket,                  \* the objects in the bucket
    max_parallelism,         \* ListingController.max_parallelism (P)
    skip_compose,            \* ListWorker.skip_compose
    list_directory_objects,  \* ListWorker.list_directory_objects
    allowed_storage_classes, \* ListWorker.allowed_storage_classes
    pc,                      \* each worker process's position in ListWorker.run
    start_range,             \* ListWorker.start_range
    end_range,               \* ListWorker.end_range
    worker_results,          \* ListWorker.results
    max_results,             \* ListWorker.max_results
    retries_remaining,       \* retries_remaining of ListWorker.run
    splitter,                \* ListWorker.splitter
    send_work_stealing_needed_queue, \* number of queued need-work requests
    direct_work_available_queue,     \* sequence of <<start, end>>
    idle_queue,              \* number of queued idle signals
    unidle_queue,            \* number of queued unidle signals
    heartbeat_queue,         \* the worker names queued as heartbeats
    results_queue,           \* union of the queued result sets
    metadata_queue,          \* number of queued metadata tuples
    error_queue,             \* the workers whose exceptions are queued
    cpc,                     \* the controller's position in run
    next_proc,               \* i of the spawn loop
    inited,                  \* ListingController.inited
    checkins,                \* ListingController.checkins
    waiting_for_work,        \* ListingController.waiting_for_work
    results,                 \* results of ListingController.run
    alive,                   \* alive of the supervision loop
    clock,                   \* time.time(), in seconds
    outcome,                 \* "running", "returned" or "raised"
    retval,                  \* the list run returned
    terminate_calls,         \* how often terminate() was called on each process
    scanned,                 \* history: the probe keys some page has covered
    consecutive_failures,    \* history: failed list calls since a worker's last success
    store,                   \* the bucket a download reads: name -> content
    objects,                 \* objects of dataflux_download
    max_composite_object_size, \* DataFluxDownloadOptimizationParams
    threading_enabled,       \* threading_enabled of dataflux_download
    sigint_handler,          \* the handler signal.signal installed for SIGINT
    i,                       \* i of dataflux_download
    res,                     \* res of dataflux_download
    objects_slice,           \* objects_slice of dataflux_download
    composed_object,         \* composed_object of dataflux_download (its name)
    current_composed_object, \* the module's global current_composed_object
    uuid_count,              \* how many uuid4() names the call has drawn
    dpc,                     \* the position in dataflux_download
    lazy,                    \* whether dataflux_download_lazy runs
    pending,                 \* what a yield from has still to yield
    resume,                  \* where the generator goes on after its yield from
    calls,                   \* history: the store calls issued, in order
    flavour,                 \* "threaded" or "parallel"
    threads,                 \* threads, or parallelization
    chunks,                  \* chunks of the multiplexed download
    child_threading_enabled, \* threading_enabled each child engine was given
    results_queues,          \* what each child has put, or the pool collected
    mpc,                     \* the position in the multiplexed download
    logged,                  \* how many exceptions logging.exception recorded
    size_errors,             \* how many length mismatches decompose logged
    rs,                      \* a RangeSplitter that is called directly
    rs_calls,                \* how many split_range calls it has received
    rs_before,               \* the splitter before its last call
    rs_call,                 \* start_range, end_range, num_splits of the last call
    rs_ret,                  \* what the last call did: its kind and its points
    mres,                    \* what the multiplexed download returned
    finished                 \* the children that have ended

worker_vars == <<pc, start_range, end_range, worker_results, max_results,
                 retries_remaining, splitter>>
queue_vars == <<send_work_stealing_needed_queue, direct_work_available_queue,
                idle_queue, unidle_queue, heartbeat_queue, results_queue,
                metadata_queue, error_queue>>
controller_vars == <<cpc, next_proc, inited, checkins, waiting_for_work,
                     results, alive, clock, outcome, retval, terminate_calls>>
input_vars == <<bucket, max_parallelism, skip_compose, list_directory_objects,
                allowed_storage_classes>>
list_vars == <<input_vars, worker_vars, queue_vars, controller_vars, scanned>>
engine_vars == <<store, objects, max_composite_object_size, threading_enabled,
                 sigint_handler, i, res, objects_slice, composed_object,
                 current_composed_object, uuid_count, dpc>>
lazy_vars == <<lazy, pending, resume>>
mux_vars == <<flavour, threads, chunks, child_threading_enabled,
              results_queues, mpc, mres, finished>>
splitter_vars == <<rs, rs_calls, rs_before, rs_call, rs_ret>>
download_vars == <<engine_vars, lazy_vars, calls, logged, mux_vars, size_errors>>

\* ListWorker.max_retries (default)
max_retries == 5

\* multiprocessing.Process.is_alive
is_alive(w) == pc[w] \notin {"unborn", "exited", "dead", "terminated"}

Procs == 0 .. (max_parallelism - 1)

\* The probe keys of the history variable scanned: every string of at most
\* two characters.
Chars == {Slash, ChA, ChB, ChC, ChD, ChE}
ProbeKeys == {<<>>} \cup {<<c>> : c \in Chars}
                \cup {<<c, d>> : c \in Chars, d \in Chars}
                \cup {o.name : o \in Universe}

InRange(k, s, e) == StrLeq(s, k) /\ (e = <<>> \/ StrLess(k, e))

(***************************************************************************)
(* ListingController.__init__ and the inputs of a run.                     *)
(***************************************************************************)
\* The state of the workers, the queues and the controller when run begins.
ListStart ==
    /\ pc = [w \in Workers |-> "unborn"]
    /\ start_range = [w \in Workers |-> IF w = 0 THEN <<>> ELSE None]
    /\ end_range = [w \in Workers |-> IF w = 0 THEN <<>> ELSE None]
    /\ worker_results = [w \in Workers |-> {}]
    /\ max_results = [w \in Workers |-> DefaultMaxResults]
    /\ retries_remaining = [w \in Workers |-> max_retries]
    /\ splitter = [w \in Workers |-> new_rangesplitter(default_alph)]
    /\ send_work_stealing_needed_queue = 0
    /\ direct_work_available_queue = <<>>
    /\ idle_queue = 0
    /\ unidle_queue = 0
    /\ heartbeat_queue = {}
    /\ results_queue = {}
    /\ metadata_queue = 0
    /\ error_queue = {}
    /\ cpc = "spawn"
    /\ next_proc = 0
    /\ inited = {}
    /\ checkins = [w \in {} |-> 0]
    /\ waiting_for_work = 0
    /\ results = {}
    /\ alive = FALSE
    /\ clock = 0
    /\ outcome = "running"
    /\ retval = <<>>
    /\ terminate_calls = [w \in Workers |-> 0]
    /\ scanned = {}
    /\ consecutive_failures = [w \in Workers |-> 0]

\* The inputs of a run: the bucket, the number of workers and the filters.
ListInit ==
    /\ max_parallelism \in 1 .. MaxWorkers
    /\ bucket \in SUBSET Universe
    /\ (max_parallelism > 1 => bucket \subseteq ConcurrentUniverse)
    /\ skip_compose \in BOOLEAN
    /\ list_directory_objects \in BOOLEAN
    /\ allowed_storage_classes \in {DEFAULT_ALLOWED_CLASS, {"STANDARD", "ARCHIVE"}}
    /\ (max_parallelism > 1 =>
            /\ skip_compose
            /\ ~list_directory_objects
            /\ allowed_storage_classes = DEFAULT_ALLOWED_CLASS)
    /\ ListStart

(***************************************************************************)
(* ListWorker.run and ListWorker.wait_for_work, one action per queue       *)
(* operation.                                                              *)
(***************************************************************************)
\* run, line 180: idle_queue.put
WorkerStartIdle(w) ==
    /\ pc[w] = "start_idle"
    /\ idle_queue' = idle_queue + 1
    /\ pc' = [pc EXCEPT ![w] = "start_unidle"]
    /\ UNCHANGED <<input_vars, start_range, end_range, worker_results,
                   max_results, retries_remaining, splitter,
                   send_work_stealing_needed_queue, direct_work_available_queue,
                   unidle_queue, heartbeat_queue, results_queue, metadata_queue,
                   error_queue, controller_vars, scanned,
                   consecutive_failures, download_vars, splitter_vars>>

\* run, line 181: unidle_queue.put
WorkerStartUnidle(w) ==
    /\ pc[w] = "start_unidle"
    /\ unidle_queue' = unidle_queue + 1
    /\ pc' = [pc EXCEPT ![w] = "start_hb"]
    /\ UNCHANGED <<input_vars, start_range, end_range, worker_results,
                   max_results, retries_remaining, splitter,
                   send_work_stealing_needed_queue, direct_work_available_queue,
                   idle_queue, heartbeat_queue, results_queue, metadata_queue,
                   error_queue, controller_vars, scanned,
                   consecutive_failures, download_vars, splitter_vars>>

\* run, lines 182-193: heartbeat_queue.put, then wait_for_work when no range
\* was given.
WorkerStartHeartbeat(w) ==
    /\ pc[w] = "start_hb"
    /\ heartbeat_queue' = heartbeat_queue \cup {w}
    /\ pc' = [pc EXCEPT ![w] =
                IF start_range[w] = None /\ end_range[w] = None
                THEN "wait_need" ELSE "list"]
    /\ UNCHANGED <<input_vars, start_range, end_range, worker_results,
                   max_results, retries_remaining, splitter,
                   send_work_stealing_needed_queue, direct_work_available_queue,
                   idle_queue, unidle_queue, results_queue, metadata_queue,
                   error_queue, controller_vars, scanned,
                   consecutive_failures, download_vars, splitter_vars>>

\* wait_for_work, line 140: send_work_stealing_needed_queue.put
WorkerNeedWork(w) ==
    /\ pc[w] = "wait_need"
    /\ send_work_stealing_needed_queue' = send_work_stealing_needed_queue + 1
    /\ pc' = [pc EXCEPT ![w] = "wait_idle"]
    /\ UNCHANGED <<input_vars, start_range, end_range, worker_results,
                   max_results, retries_remaining, splitter,
                   direct_work_available_queue, idle_queue, unidle_queue,
                   heartbeat_queue, results_queue, metadata_queue, error_queue,
                   controller_vars, scanned,
                   consecutive_failures, download_vars, splitter_vars>>

\* wait_for_work, line 141: idle_queue.put
WorkerIdle(w) ==
    /\ pc[w] = "wait_idle"
    /\ idle_queue' = idle_queue + 1
    /\ pc' = [pc EXCEPT ![w] = "wait_poll"]
    /\ UNCHANGED <<input_vars, start_range, end_range, worker_results,
                   max_results, retries_remaining, splitter,
                   send_work_stealing_needed_queue, direct_work_available_queue,
                   unidle_queue, heartbeat_queue, results_queue, metadata_queue,
                   error_queue, controller_vars, scanned,
                   consecutive_failures, download_vars, splitter_vars>>

\* wait_for_work, lines 143-164: one round of the polling loop, the
\* heartbeat put and direct_work_available_queue.get_nowait.  Empty: sleep
\* and poll again.  A range: it is held in new_range (here already in
\* start_range and end_range) until unidle is put.  The shutdown sentinel:
\* put the metadata and return False, which ends run.
WorkerGetWork(w) ==
    /\ pc[w] = "wait_poll"
    /\ heartbeat_queue' = heartbeat_queue \cup {w}
    /\ IF direct_work_available_queue = <<>>
       THEN UNCHANGED <<pc, direct_work_available_queue, start_range,
                        end_range, metadata_queue>>
       ELSE LET new_range == Head(direct_work_available_queue)
            IN /\ direct_work_available_queue' = Tail(direct_work_available_queue)
               /\ IF new_range[1] # None
                  THEN /\ start_range' = [start_range EXCEPT ![w] = new_range[1]]
                       /\ end_range' = [end_range EXCEPT ![w] = new_range[2]]
                       /\ pc' = [pc EXCEPT ![w] = "wait_unidle"]
                       /\ UNCHANGED metadata_queue
                  ELSE /\ metadata_queue' = metadata_queue + 1
                       /\ pc' = [pc EXCEPT ![w] = "exited"]
                       /\ UNCHANGED <<start_range, end_range>>
    /\ UNCHANGED <<input_vars, worker_results, max_results, retries_remaining,
                   splitter, send_work_stealing_needed_queue, idle_queue,
                   unidle_queue, results_queue, error_queue,
                   controller_vars, scanned,
                   consecutive_failures, download_vars, splitter_vars>>

\* A worker that takes a range without putting unidle.
WorkerUnidleSilent(w) ==
    /\ pc[w] = "wait_unidle"
    /\ pc' = [pc EXCEPT ![w] = "list"]
    /\ UNCHANGED <<input_vars, start_range, end_range, worker_results,
                   max_results, retries_remaining, splitter, queue_vars,
                   controller_vars, scanned,
                   consecutive_failures, download_vars, splitter_vars>>

\* wait_for_work, line 149: unidle_queue.put
WorkerUnidle(w) ==
    /\ pc[w] = "wait_unidle"
    /\ unidle_queue' = unidle_queue + 1
    /\ pc' = [pc EXCEPT ![w] = "list"]
    /\ UNCHANGED <<input_vars, start_range, end_range, worker_results,
                   max_results, retries_remaining, splitter,
                   send_work_stealing_needed_queue, direct_work_available_queue,
                   idle_queue, heartbeat_queue, results_queue, metadata_queue,
                   error_queue, controller_vars, scanned,
                   consecutive_failures, download_vars, splitter_vars>>

\* The page one list call returns for worker w (run, lines 197-210).
page_of(w) ==
    list_blobs(bucket, max_results[w], prefix \o start_range[w],
               IF end_range[w] = <<>> THEN <<>> ELSE prefix \o end_range[w],
               prefix)

\* The (name, size) tuples of a page that pass the filters.
page_results(page) ==
    {<<page[n].name, page[n].size>> : n \in
        {j \in DOMAIN page : passes_filters(page[j], skip_compose,
                                 list_directory_objects, allowed_storage_classes)}}

\* The probe keys a page of worker w has covered: up to the last key of a
\* full page, the whole range otherwise.
page_scanned(w, page) ==
    {k \in ProbeKeys :
        /\ InRange(k, start_range[w], end_range[w])
        /\ (Len(page) = max_results[w] =>
               StrLeq(k, remove_prefix(page[Len(page)].name, prefix)))}

\* run, lines 195-230 and 242, 254-258: a list call that succeeds.  Every
\* object of the page is filtered into results and moves start_range; a
\* full page (i == max_results) sets has_results.
WorkerList(w) ==
    /\ pc[w] = "list"
    /\ LET page == page_of(w)
           has_results == Len(page) = max_results[w]
           new_results == worker_results[w] \cup page_results(page)
       IN /\ heartbeat_queue' = heartbeat_queue \cup {w}
          /\ worker_results' = [worker_results EXCEPT ![w] = new_results]
          /\ start_range' = [start_range EXCEPT ![w] =
                IF Len(page) = 0 THEN @
                ELSE remove_prefix(page[Len(page)].name, prefix)]
          /\ retries_remaining' = [retries_remaining EXCEPT ![w] = max_retries]
          /\ scanned' = scanned \cup page_scanned(w, page)
          /\ consecutive_failures' = [consecutive_failures EXCEPT ![w] = 0]
          /\ pc' = [pc EXCEPT ![w] =
                IF has_results THEN "steal"
                ELSE IF new_results # {} THEN "flush" ELSE "wait_need"]
    /\ UNCHANGED <<input_vars, end_range, max_results, splitter,
                   send_work_stealing_needed_queue, direct_work_available_queue,
                   idle_queue, unidle_queue, results_queue, metadata_queue,
                   error_queue, controller_vars, download_vars, splitter_vars>>

\* run, lines 244-247: send_work_stealing_needed_queue.get_nowait
WorkerCheckSteal(w) ==
    /\ pc[w] = "steal"
    /\ IF send_work_stealing_needed_queue = 0
       THEN /\ pc' = [pc EXCEPT ![w] = "list"]
            /\ UNCHANGED send_work_stealing_needed_queue
       ELSE /\ send_work_stealing_needed_queue' =
                    send_work_stealing_needed_queue - 1
            /\ pc' = [pc EXCEPT ![w] = "donate"]
    /\ UNCHANGED <<input_vars, start_range, end_range, worker_results,
                   max_results, retries_remaining, splitter,
                   direct_work_available_queue, idle_queue, unidle_queue,
                   heartbeat_queue, results_queue, metadata_queue, error_queue,
                   controller_vars, scanned,
                   consecutive_failures, download_vars, splitter_vars>>

\* A donation that hands out the donor's whole remaining range.
steal_range_whole(w, split_points) == <<start_range[w], end_range[w]>>

\* run, line 250: steal_range = (split_points[0], self.end_range)
steal_range(w, split_points) == <<split_points[1], end_range[w]>>

\* run, lines 248-253: split the remaining range and put its upper part on
\* the direct-work queue.  split_points[0] of an empty list raises
\* IndexError outside the try block, which ends the process ("dead"); a
\* split_range that never returns leaves it spinning ("hung").
WorkerDonate(w) ==
    /\ pc[w] = "donate"
    /\ LET split == split_range(splitter[w], start_range[w], end_range[w], 1)
       IN /\ splitter' = [splitter EXCEPT ![w] = split.splitter]
          /\ IF split.kind = "hang"
             THEN /\ pc' = [pc EXCEPT ![w] = "hung"]
                  /\ UNCHANGED <<direct_work_available_queue, end_range,
                                 max_results>>
             ELSE IF split.points = <<>>
             THEN /\ pc' = [pc EXCEPT ![w] = "dead"]
                  /\ UNCHANGED <<direct_work_available_queue, end_range,
                                 max_results>>
             ELSE /\ direct_work_available_queue' =
                        Append(direct_work_available_queue,
                               steal_range(w, split.points))
                  /\ end_range' = [end_range EXCEPT ![w] = split.points[1]]
                  /\ max_results' = [max_results EXCEPT ![w] = DefaultMaxResults]
                  /\ pc' = [pc EXCEPT ![w] = "list"]
    /\ UNCHANGED <<input_vars, start_range, worker_results, retries_remaining,
                   send_work_stealing_needed_queue, idle_queue, unidle_queue,
                   heartbeat_queue, results_queue, metadata_queue, error_queue,
                   controller_vars, scanned,
                   consecutive_failures, download_vars, splitter_vars>>

\* A worker that goes to wait_for_work with its results still local.
WorkerFlushSkipped(w) ==
    /\ pc[w] = "flush"
    /\ pc' = [pc EXCEPT ![w] = "wait_need"]
    /\ UNCHANGED <<input_vars, start_range, end_range, worker_results,
                   max_results, retries_remaining, splitter, queue_vars,
                   controller_vars, scanned,
                   consecutive_failures, download_vars, splitter_vars>>

\* run, lines 256-258: results_queue.put of a non-empty result set
WorkerFlush(w) ==
    /\ pc[w] = "flush"
    /\ results_queue' = results_queue \cup worker_results[w]
    /\ worker_results' = [worker_results EXCEPT ![w] = {}]
    /\ pc' = [pc EXCEPT ![w] = "wait_need"]
    /\ UNCHANGED <<input_vars, start_range, end_range, max_results,
                   retries_remaining, splitter, send_work_stealing_needed_queue,
                   direct_work_available_queue, idle_queue, unidle_queue,
                   heartbeat_queue, metadata_queue, error_queue,
                   controller_vars, scanned,
                   consecutive_failures, download_vars, splitter_vars>>

(***************************************************************************)
(* Faults: a list call that raises, and a worker process that dies.        *)
(***************************************************************************)
Min(a, b) == IF a <= b THEN a ELSE b

\* A budget that is spent at one retry left.
out_of_retries_early(remaining) == remaining <= 1

\* run, line 236: if retries_remaining == 0
out_of_retries(remaining) == remaining = 0

\* run, lines 195-241: a list attempt that raises, either in the call
\* (nothing of the page is seen, no heartbeat is put) or while the page is
\* iterated, after n of its objects were handled.  The budget goes down by
\* one; at zero the worker puts the exception on error_queue and returns.
ListFail(w) ==
    /\ pc[w] = "list"
    /\ LET page == page_of(w)
       IN \E n \in 0 .. Min(Len(page), max_results[w] - 1),
             in_iteration \in BOOLEAN :
          /\ (n > 0 => in_iteration)
          /\ heartbeat_queue' =
                IF in_iteration THEN heartbeat_queue \cup {w} ELSE heartbeat_queue
          /\ worker_results' = [worker_results EXCEPT ![w] =
                @ \cup page_results(SeqPrefix(page, n))]
          /\ start_range' = [start_range EXCEPT ![w] =
                IF n = 0 THEN @ ELSE remove_prefix(page[n].name, prefix)]
          /\ scanned' = scanned \cup
                {k \in ProbeKeys :
                    /\ n > 0
                    /\ InRange(k, start_range[w], end_range[w])
                    /\ StrLeq(k, remove_prefix(page[n].name, prefix))}
    /\ retries_remaining' = [retries_remaining EXCEPT ![w] = @ - 1]
    /\ consecutive_failures' = [consecutive_failures EXCEPT ![w] = @ + 1]
    /\ IF out_of_retries(retries_remaining[w] - 1)
       THEN /\ error_queue' = error_queue \cup {w}
            /\ pc' = [pc EXCEPT ![w] = "exited"]
       ELSE UNCHANGED <<error_queue, pc>>
    /\ UNCHANGED <<input_vars, end_range, max_results, splitter,
                   send_work_stealing_needed_queue, direct_work_available_queue,
                   idle_queue, unidle_queue, results_queue, metadata_queue,
                   controller_vars, download_vars, splitter_vars>>

\* A worker process that dies while it paginates (killed by the system; the
\* uncaught exception of run is WorkerDonate's).
Crash(w) ==
    /\ pc[w] \in {"list", "steal"}
    /\ pc' = [pc EXCEPT ![w] = "dead"]
    /\ UNCHANGED <<input_vars, start_range, end_range, worker_results,
                   max_results, retries_remaining, splitter, queue_vars,
                   controller_vars, scanned, consecutive_failures,
                   download_vars, splitter_vars>>

(***************************************************************************)
(* ListingController.run, one action per queue drain or decision.          *)
(***************************************************************************)
\* MODIFIED_RETRY._maximum, in seconds
retry_maximum == 45

\* The floor of checkin_wait in check_crashed_processes, in seconds
min_checkin_wait == 60

\* A check_crashed_processes that reports a worker whose last check-in is
\* exactly checkin_wait old.
check_crashed_processes_inclusive(checkin, init, now) ==
    LET checkin_wait == Max(2 * retry_maximum, min_checkin_wait)
    IN \E inited_worker \in DOMAIN checkin :
          /\ now - checkin[inited_worker] >= checkin_wait
          /\ inited_worker \in init

\* ListingController.check_crashed_processes at time now
check_crashed_processes(checkin, init, now) ==
    LET checkin_wait == Max(2 * retry_maximum, min_checkin_wait)
    IN \E inited_worker \in DOMAIN checkin :
          /\ now - checkin[inited_worker] > checkin_wait
          /\ inited_worker \in init

\* A terminate_now that spares the processes that have already ended.
terminate_now_alive_only ==
    /\ terminate_calls' = [w \in Workers |->
            IF w \in Procs /\ is_alive(w)
            THEN terminate_calls[w] + 1 ELSE terminate_calls[w]]
    /\ pc' = [w \in Workers |->
            IF w \in Procs /\ is_alive(w) THEN "terminated" ELSE pc[w]]
    /\ outcome' = "raised"
    /\ cpc' = "done"

\* ListingController.terminate_now: terminate() on every process of the
\* list, then raise RuntimeError.
terminate_now ==
    /\ terminate_calls' = [w \in Workers |->
            IF w \in Procs THEN terminate_calls[w] + 1 ELSE terminate_calls[w]]
    /\ pc' = [w \in Workers |->
            IF w \in Procs /\ is_alive(w) THEN "terminated" ELSE pc[w]]
    /\ outcome' = "raised"
    /\ cpc' = "done"

\* run, lines 527-555: start the next worker process
ControllerSpawn ==
    /\ cpc = "spawn"
    /\ pc' = [pc EXCEPT ![next_proc] = "start_idle"]
    /\ next_proc' = next_proc + 1
    /\ cpc' = IF next_proc + 1 = max_parallelism THEN "tick_error" ELSE "spawn"
    /\ UNCHANGED <<input_vars, start_range, end_range, worker_results,
                   max_results, retries_remaining, splitter, queue_vars,
                   inited, checkins, waiting_for_work, results, alive, clock,
                   outcome, retval, terminate_calls, scanned,
                   consecutive_failures, download_vars, splitter_vars>>

\* run, lines 557-565: error_queue.get_nowait
ControllerCheckError ==
    /\ cpc = "tick_error"
    /\ IF error_queue # {}
       THEN /\ \E e \in error_queue : error_queue' = error_queue \ {e}
            /\ terminate_now
       ELSE /\ cpc' = "tick_alive"
            /\ UNCHANGED <<error_queue, pc, outcome, terminate_calls>>
    /\ UNCHANGED <<input_vars, start_range, end_range, worker_results,
                   max_results, retries_remaining, splitter,
                   send_work_stealing_needed_queue, direct_work_available_queue,
                   idle_queue, unidle_queue, heartbeat_queue, results_queue,
                   metadata_queue, next_proc, inited, checkins,
                   waiting_for_work, results, alive, clock, retval, scanned,
                   consecutive_failures, download_vars, splitter_vars>>

\* run, lines 566-582: is any process alive; drain results_queue; leave
\* the loop when no process was alive
ControllerDrainResults ==
    /\ cpc = "tick_alive"
    /\ alive' = (\E p \in Procs : is_alive(p))
    /\ results' = results \cup results_queue
    /\ results_queue' = {}
    /\ cpc' = IF \E p \in Procs : is_alive(p) THEN "tick_idle" ELSE "post_drain"
    /\ UNCHANGED <<input_vars, worker_vars, send_work_stealing_needed_queue,
                   direct_work_available_queue, idle_queue, unidle_queue,
                   heartbeat_queue, metadata_queue, error_queue, next_proc,
                   inited, checkins, waiting_for_work, clock, outcome,
                   retval, terminate_calls, scanned,
                   consecutive_failures, download_vars, splitter_vars>>

\* manage_tracking_queues, lines 382-387: drain idle_queue
ControllerDrainIdle ==
    /\ cpc = "tick_idle"
    /\ waiting_for_work' = waiting_for_work + idle_queue
    /\ idle_queue' = 0
    /\ cpc' = "tick_unidle"
    /\ UNCHANGED <<input_vars, worker_vars, send_work_stealing_needed_queue,
                   direct_work_available_queue, unidle_queue, heartbeat_queue,
                   results_queue, metadata_queue, error_queue, next_proc,
                   inited, checkins, results, alive, clock, outcome, retval,
                   terminate_calls, scanned,
                   consecutive_failures, download_vars, splitter_vars>>

\* manage_tracking_queues, lines 388-393: drain unidle_queue
ControllerDrainUnidle ==
    /\ cpc = "tick_unidle"
    /\ waiting_for_work' = waiting_for_work - unidle_queue
    /\ unidle_queue' = 0
    /\ cpc' = "tick_heartbeat"
    /\ UNCHANGED <<input_vars, worker_vars, send_work_stealing_needed_queue,
                   direct_work_available_queue, idle_queue, heartbeat_queue,
                   results_queue, metadata_queue, error_queue, next_proc,
                   inited, checkins, results, alive, clock, outcome, retval,
                   terminate_calls, scanned,
                   consecutive_failures, download_vars, splitter_vars>>

\* run, lines 593-594: max_parallelism * 2 shutdown sentinels
RECURSIVE sentinels(_)
sentinels(n) == IF n = 0 THEN <<>> ELSE <<<<None, None>>>> \o sentinels(n - 1)

\* ListingController.inited after the heartbeat drain of
\* manage_tracking_queues, lines 394-401
drained_inited == inited \cup heartbeat_queue

\* ListingController.checkins after the heartbeat drain
drained_checkins ==
    [w \in DOMAIN checkins \cup heartbeat_queue |->
        IF w \in heartbeat_queue THEN clock ELSE checkins[w]]

\* run, line 590: the test for shutdown
all_waiting(init, waiting) == Cardinality(init) = waiting /\ waiting > 0

\* manage_tracking_queues, lines 394-401, and run, lines 586-595: drain
\* heartbeat_queue, check for crashed processes, then test for shutdown
ControllerCheck ==
    /\ cpc = "tick_heartbeat"
    /\ inited' = drained_inited
    /\ checkins' = drained_checkins
    /\ heartbeat_queue' = {}
    /\ IF check_crashed_processes(drained_checkins, drained_inited, clock)
       THEN /\ terminate_now
            /\ UNCHANGED direct_work_available_queue
       ELSE /\ IF all_waiting(drained_inited, waiting_for_work)
               THEN /\ direct_work_available_queue' =
                          direct_work_available_queue
                              \o sentinels(max_parallelism * 2)
                    /\ cpc' = "post_drain"
               ELSE /\ cpc' = "tick_error"
                    /\ UNCHANGED direct_work_available_queue
            /\ UNCHANGED <<pc, outcome, terminate_calls>>
    /\ UNCHANGED <<input_vars, start_range, end_range, worker_results,
                   max_results, retries_remaining, splitter,
                   send_work_stealing_needed_queue, idle_queue, unidle_queue,
                   results_queue, metadata_queue, error_queue,
                   next_proc, waiting_for_work, results,
                   alive, clock, retval, scanned,
                   consecutive_failures, download_vars, splitter_vars>>

\* run, lines 596-602: drain results_queue after the loop
ControllerPostDrain ==
    /\ cpc = "post_drain"
    /\ results' = results \cup results_queue
    /\ results_queue' = {}
    /\ cpc' = "cleanup_alive"
    /\ UNCHANGED <<input_vars, worker_vars, send_work_stealing_needed_queue,
                   direct_work_available_queue, idle_queue, unidle_queue,
                   heartbeat_queue, metadata_queue, error_queue, next_proc,
                   inited, checkins, waiting_for_work, alive, clock, outcome,
                   retval, terminate_calls, scanned,
                   consecutive_failures, download_vars, splitter_vars>>

\* cleanup_processes, lines 450-464: look for a live process; when there is
\* one, drain results_queue and sleep
CleanupCheckAlive ==
    /\ cpc = "cleanup_alive"
    /\ alive' = (\E p \in Procs : is_alive(p))
    /\ IF \E p \in Procs : is_alive(p)
       THEN /\ results' = results \cup results_queue
            /\ results_queue' = {}
       ELSE UNCHANGED <<results, results_queue>>
    /\ cpc' = "cleanup_decide"
    /\ UNCHANGED <<input_vars, worker_vars, send_work_stealing_needed_queue,
                   direct_work_available_queue, idle_queue, unidle_queue,
                   heartbeat_queue, metadata_queue, error_queue, next_proc,
                   inited, checkins, waiting_for_work, clock, outcome, retval,
                   terminate_calls, scanned,
                   consecutive_failures, download_vars, splitter_vars>>

\* cleanup_processes, lines 465-486: drain metadata_queue; with live_procs
\* (0 or 1, the scan stops at the first live process) at most
\* max_parallelism - len(inited), terminate the live processes; return the
\* sorted results once alive is False
CleanupDecide ==
    /\ cpc = "cleanup_decide"
    /\ metadata_queue' = 0
    /\ LET live_procs == IF alive THEN 1 ELSE 0
           give_up == live_procs <= max_parallelism - Cardinality(inited)
       IN /\ IF give_up
             THEN /\ terminate_calls' = [w \in Workers |->
                        IF w \in Procs /\ is_alive(w)
                        THEN terminate_calls[w] + 1 ELSE terminate_calls[w]]
                  /\ pc' = [w \in Workers |->
                        IF w \in Procs /\ is_alive(w) THEN "terminated" ELSE pc[w]]
             ELSE UNCHANGED <<terminate_calls, pc>>
          /\ IF give_up \/ ~alive
             THEN /\ outcome' = "returned"
                  /\ retval' = sorted_results(results)
                  /\ cpc' = "done"
                  /\ alive' = FALSE
             ELSE /\ cpc' = "cleanup_alive"
                  /\ UNCHANGED <<outcome, retval, alive>>
    /\ UNCHANGED <<input_vars, start_range, end_range, worker_results,
                   max_results, retries_remaining, splitter,
                   send_work_stealing_needed_queue, direct_work_available_queue,
                   idle_queue, unidle_queue, heartbeat_queue, results_queue,
                   error_queue, next_proc, inited, checkins, waiting_for_work,
                   results, clock, scanned,
                   consecutive_failures, download_vars, splitter_vars>>

\* Bounds of the clock: a sleep of the controller that lasts LongSleep
\* seconds, and the time after which the model stops the clock.
LongSleep == 100
MaxClock == 200

\* run, line 557: time.sleep.  Time is read by the controller alone, so it
\* passes here.  The sleep is short (no time passes in the model) while
\* every started process is running; with a process that has stopped it may
\* last long.
ControllerSleep ==
    /\ cpc = "tick_error"
    /\ clock < MaxClock
    /\ \E p \in Procs : pc[p] \in {"dead", "hung"}
    /\ clock' = clock + LongSleep
    /\ UNCHANGED <<input_vars, worker_vars, queue_vars, cpc, next_proc, inited,
                   checkins, waiting_for_work, results, alive, outcome, retval,
                   terminate_calls, scanned,
                   consecutive_failures, download_vars, splitter_vars>>

Worker(w) ==
    \/ WorkerStartIdle(w)
    \/ WorkerStartUnidle(w)
    \/ WorkerStartHeartbeat(w)
    \/ WorkerNeedWork(w)
    \/ WorkerIdle(w)
    \/ WorkerGetWork(w)
    \/ WorkerUnidle(w)
    \/ WorkerList(w)
    \/ WorkerCheckSteal(w)
    \/ WorkerDonate(w)
    \/ WorkerFlush(w)

Controller ==
    \/ ControllerSpawn
    \/ ControllerSleep
    \/ ControllerCheckError
    \/ ControllerDrainResults
    \/ ControllerDrainIdle
    \/ ControllerDrainUnidle
    \/ ControllerCheck
    \/ ControllerPostDrain
    \/ CleanupCheckAlive
    \/ CleanupDecide

(***************************************************************************)
(* The download engine: dataflux_download, compose and decompose.          *)
(***************************************************************************)
MAX_NUM_OBJECTS_TO_COMPOSE == 32

\* Bounds of the download inputs: the length of the descriptor lists that
\* are enumerated in full, the small composite sizes, and a composite size
\* no batch of the model exceeds.
MaxObjects == 3
MaxCompositeSize == 3
BigCompositeSize == 100

\* The objects a download reads, with their contents as bytes.
DlStore ==
    (<<ChA>> :> <<1>>) @@ (<<ChB>> :> <<2, 3>>) @@ (<<ChC>> :> <<>>)
        @@ (<<ChD>> :> <<4, 5, 6>>)

\* The (name, size) descriptor of a stored object, its size accurate.
descriptor(name) == <<name, Len(DlStore[name])>>

Descriptors == {descriptor(name) : name \in DOMAIN DlStore}

\* Descriptor lists: every list of at most MaxObjects descriptors, and
\* lists of one- and two-byte objects around MAX_NUM_OBJECTS_TO_COMPOSE.
ShortLists == UNION {[1 .. n -> Descriptors] : n \in 0 .. MaxObjects}
LongLists ==
    {[k \in 1 .. n |-> IF k % 6 = 0 THEN descriptor(<<ChB>>)
                                    ELSE descriptor(<<ChA>>)] :
        n \in (MAX_NUM_OBJECTS_TO_COMPOSE - 1) .. (MAX_NUM_OBJECTS_TO_COMPOSE + 2)}

\* Bound of the sizes a descriptor may declare.
MaxDeclaredSize == 3

\* Descriptors whose declared size need not be the size of the object, and
\* the lists of at most MaxObjects of them.
AnyDescriptors == {<<name, size>> : name \in DOMAIN DlStore, size \in 0 .. MaxDeclaredSize}
AnyLists == UNION {[1 .. n -> AnyDescriptors] : n \in 0 .. MaxObjects}

\* Blob.download_as_bytes through download_single
download_single(blobs, object_name) == blobs[object_name]

RECURSIVE concat_contents(_, _)
\* Blob.compose: the contents of the sources, concatenated in their order
concat_contents(blobs, sources) ==
    IF sources = <<>> THEN <<>>
    ELSE blobs[sources[1][1]] \o concat_contents(blobs, Tail(sources))

\* content[a:b] of Python
Slice(content, a, b) ==
    SubSeq(content, Min(a, Len(content)) + 1, Min(b, Len(content)))

RECURSIVE decompose_keeping_start(_, _, _)
\* A decompose whose start does not advance.
decompose_keeping_start(content, slice, start) ==
    IF slice = <<>> THEN <<>>
    ELSE <<Slice(content, start, start + slice[1][2])>>
            \o decompose_keeping_start(content, Tail(slice), start)

RECURSIVE decompose_skipping_empty(_, _, _)
\* A decompose that returns no slice for a descriptor of size 0.
decompose_skipping_empty(content, slice, start) ==
    IF slice = <<>> THEN <<>>
    ELSE (IF slice[1][2] = 0 THEN <<>>
          ELSE <<Slice(content, start, start + slice[1][2])>>)
            \o decompose_skipping_empty(content, Tail(slice), start + slice[1][2])

RECURSIVE decompose(_, _, _)
\* decompose, lines 131-144: one slice per descriptor, start advancing by
\* the declared sizes
decompose(content, slice, start) ==
    IF slice = <<>> THEN <<>>
    ELSE <<Slice(content, start, start + slice[1][2])>>
            \o decompose(content, Tail(slice), start + slice[1][2])

RECURSIVE sum_sizes(_)
\* decompose, lines 131-138: where start stands after the descriptors, the
\* sum of their declared sizes
sum_sizes(slice) ==
    IF slice = <<>> THEN 0 ELSE slice[1][2] + sum_sizes(Tail(slice))

RECURSIVE batch_loop_uncapped(_, _, _, _, _)
\* A batch loop that admits objects without counting them.
batch_loop_uncapped(objs, max_size, idx, curr_size, slice) ==
    IF /\ idx < Len(objs)
       /\ curr_size <= max_size
    THEN batch_loop_uncapped(objs, max_size, idx + 1,
                             curr_size + objs[idx + 1][2],
                             Append(slice, objs[idx + 1]))
    ELSE slice

RECURSIVE batch_loop_strict(_, _, _, _, _)
\* A batch loop that stops before the object that would take the size
\* admitted past the maximum.
batch_loop_strict(objs, max_size, idx, curr_size, slice) ==
    IF /\ idx < Len(objs)
       /\ curr_size + objs[idx + 1][2] <= max_size
       /\ Len(slice) < MAX_NUM_OBJECTS_TO_COMPOSE
    THEN batch_loop_strict(objs, max_size, idx + 1,
                           curr_size + objs[idx + 1][2],
                           Append(slice, objs[idx + 1]))
    ELSE slice

RECURSIVE batch_loop(_, _, _, _, _)
\* dataflux_download, lines 381-385: admit objects while the size admitted
\* so far is at most the maximum and fewer than 32 are admitted
batch_loop(objs, max_size, idx, curr_size, slice) ==
    IF /\ idx < Len(objs)
       /\ curr_size <= max_size
       /\ Len(slice) < MAX_NUM_OBJECTS_TO_COMPOSE
    THEN batch_loop(objs, max_size, idx + 1, curr_size + objs[idx + 1][2],
                    Append(slice, objs[idx + 1]))
    ELSE slice

\* COMPOSED_PREFIX + str(uuid.uuid4()): a name no other call to uuid4 gave
composed_object_name(n) == COMPOSED_PREFIX \o <<n>>

\* A delete that leaves the blob where it is.
delete_nothing(blobs, name) == blobs

\* Blob.delete: the bucket without the blob
delete_blob(blobs, name) == [n \in DOMAIN blobs \ {name} |-> blobs[n]]

RECURSIVE dataflux_download_run(_, _, _, _, _)
\* dataflux_download, lines 362-425, run from index idx to its return with
\* every store call succeeding and n names drawn from uuid4 before: what it
\* adds to res, and the store calls it issues
dataflux_download_run(blobs, objs, max_size, idx, n) ==
    IF idx >= Len(objs)
    THEN [res |-> <<>>, calls |-> <<>>]
    ELSE IF objs[idx + 1][2] > max_size
    THEN LET rest == dataflux_download_run(blobs, objs, max_size, idx + 1, n)
         IN [res |-> <<download_single(blobs, objs[idx + 1][1])>> \o rest.res,
             calls |-> <<<<"download", objs[idx + 1][1]>>>> \o rest.calls]
    ELSE LET slice == batch_loop(objs, max_size, idx, 0, <<>>)
             name == composed_object_name(n + 1)
         IN IF Len(slice) = 1
            THEN LET rest == dataflux_download_run(blobs, objs, max_size, idx + 1, n)
                 IN [res |-> <<download_single(blobs, slice[1][1])>> \o rest.res,
                     calls |-> <<<<"download", slice[1][1]>>>> \o rest.calls]
            ELSE LET rest == dataflux_download_run(blobs, objs, max_size, idx + Len(slice), n + 1)
                 IN [res |-> decompose(concat_contents(blobs, slice), slice, 0) \o rest.res,
                     calls |-> <<<<"compose", name, slice>>, <<"download", name>>,
                                 <<"delete", name>>>> \o rest.calls]

listing_vars == <<list_vars, consecutive_failures, splitter_vars>>

\* No multiplexed download runs.
MuxIdle ==
    /\ flavour = "threaded"
    /\ threads = 1
    /\ chunks = <<>>
    /\ child_threading_enabled = <<>>
    /\ results_queues = <<>>
    /\ mpc = "idle"
    /\ mres = <<>>
    /\ finished = {}

\* No download runs.
DownloadIdle ==
    /\ store = DlStore
    /\ objects = <<>>
    /\ max_composite_object_size = 0
    /\ threading_enabled = FALSE
    /\ sigint_handler = "default"
    /\ i = 0
    /\ res = <<>>
    /\ objects_slice = <<>>
    /\ composed_object = None
    /\ current_composed_object = None
    /\ uuid_count = 0
    /\ dpc = "idle"
    /\ lazy = FALSE
    /\ pending = <<>>
    /\ resume = "loop"
    /\ calls = <<>>
    /\ logged = 0
    /\ size_errors = 0
    /\ MuxIdle

\* The inputs of dataflux_download and of dataflux_download_lazy.
DownloadInit ==
    /\ store = DlStore
    /\ objects \in ShortLists \cup LongLists
    /\ max_composite_object_size \in (0 .. MaxCompositeSize) \cup {BigCompositeSize}
    /\ threading_enabled \in BOOLEAN
    /\ sigint_handler = "default"
    /\ i = 0
    /\ res = <<>>
    /\ objects_slice = <<>>
    /\ composed_object = None
    /\ current_composed_object = None
    /\ uuid_count = 0
    /\ dpc = "begin"
    /\ pending = <<>>
    /\ resume = "loop"
    /\ calls = <<>>
    /\ logged = 0
    /\ size_errors = 0
    /\ MuxIdle

\* A lazy engine that goes back to its while loop after every yield from,
\* also after the one of a composed batch.
deliver_without_cleanup(contents, after) ==
    IF lazy
    THEN /\ pending' = contents
         /\ resume' = IF after = "incr" THEN "incr" ELSE "loop"
         /\ dpc' = "yield"
         /\ UNCHANGED res
    ELSE /\ res' = res \o contents
         /\ dpc' = IF after = "incr" THEN "loop" ELSE after
         /\ UNCHANGED <<pending, resume>>

\* What both engines do with contents they have fetched: dataflux_download
\* extends res (lines 374, 395, 409) and goes on; dataflux_download_lazy
\* starts a yield from over them (lines 477, 498, 512).  In the lazy engine
\* res is what the consumer has received.
deliver(contents, after) ==
    IF lazy
    THEN /\ pending' = contents
         /\ resume' = after
         /\ dpc' = "yield"
         /\ UNCHANGED res
    ELSE /\ res' = res \o contents
         /\ dpc' = IF after = "incr" THEN "loop" ELSE after
         /\ UNCHANGED <<pending, resume>>

\* dataflux_download, lines 353-361, and dataflux_download_lazy, lines
\* 460-463 (run by the first next()): res = [], i = 0, and the SIGINT
\* handler unless threading_enabled
DownloadBegin ==
    /\ dpc = "begin"
    /\ res' = <<>>
    /\ i' = 0
    /\ sigint_handler' =
          IF ~threading_enabled THEN "term_signal_handler" ELSE sigint_handler
    /\ dpc' = "loop"
    /\ UNCHANGED <<listing_vars, store, objects, max_composite_object_size,
                   threading_enabled, objects_slice, composed_object,
                   current_composed_object, uuid_count, lazy_vars, calls,
                   logged, mux_vars, size_errors>>

\* dataflux_download, lines 362-395, and dataflux_download_lazy, lines
\* 465-498: one turn of the while loop up to the direct download or to the
\* compose call.  The eager engine advances i with the direct download of a
\* large object, the lazy one after its yield (line 478).
DownloadLoop ==
    /\ dpc = "loop"
    /\ IF i >= Len(objects)
       THEN /\ dpc' = "done"
            /\ UNCHANGED <<i, res, objects_slice, lazy_vars, calls>>
       ELSE IF objects[i + 1][2] > max_composite_object_size
       THEN /\ deliver(<<download_single(store, objects[i + 1][1])>>, "incr")
            /\ calls' = Append(calls, <<"download", objects[i + 1][1]>>)
            /\ i' = IF lazy THEN i ELSE i + 1
            /\ UNCHANGED objects_slice
       ELSE LET slice == batch_loop(objects, max_composite_object_size, i, 0, <<>>)
            IN /\ i' = i + Len(slice)
               /\ objects_slice' = slice
               /\ IF Len(slice) = 1
                  THEN /\ deliver(<<download_single(store, slice[1][1])>>, "loop")
                       /\ calls' = Append(calls, <<"download", slice[1][1]>>)
                  ELSE /\ dpc' = "compose"
                       /\ UNCHANGED <<res, lazy_vars, calls>>
    /\ UNCHANGED <<listing_vars, store, objects, max_composite_object_size,
                   threading_enabled, sigint_handler, composed_object,
                   current_composed_object, uuid_count, lazy, logged, mux_vars, size_errors>>

\* dataflux_download, lines 399-407 (lazy: 502-510), and compose: ValueError
\* for more than 32 sources, else the destination holds the sources'
\* contents
DownloadCompose ==
    /\ dpc = "compose"
    /\ uuid_count' = uuid_count + 1
    /\ IF Len(objects_slice) > MAX_NUM_OBJECTS_TO_COMPOSE
       THEN /\ dpc' = "raised"
            /\ UNCHANGED <<store, composed_object, calls>>
       ELSE /\ store' = (composed_object_name(uuid_count + 1) :>
                            concat_contents(store, objects_slice)) @@ store
            /\ composed_object' = composed_object_name(uuid_count + 1)
            /\ calls' = Append(calls, <<"compose",
                                        composed_object_name(uuid_count + 1),
                                        objects_slice>>)
            /\ dpc' = "register"
    /\ UNCHANGED <<listing_vars, objects, max_composite_object_size,
                   threading_enabled, sigint_handler, i, res, objects_slice,
                   current_composed_object, lazy_vars, logged, mux_vars, size_errors>>

\* dataflux_download, line 408 (lazy: 511):
\* current_composed_object = composed_object
DownloadRegister ==
    /\ dpc = "register"
    /\ current_composed_object' = composed_object
    /\ dpc' = "decompose"
    /\ UNCHANGED <<listing_vars, store, objects, max_composite_object_size,
                   threading_enabled, sigint_handler, i, res, objects_slice,
                   composed_object, uuid_count, lazy_vars, calls, logged,
                   mux_vars, size_errors>>

\* dataflux_download, lines 409-417 (lazy: 512-519), and decompose: download
\* the composite, cut it by the declared sizes, and log an error if they do
\* not add up to its length (lines 139-143)
DownloadDecompose ==
    /\ dpc = "decompose"
    /\ deliver(decompose(download_single(store, composed_object),
                         objects_slice, 0), "delete")
    /\ calls' = Append(calls, <<"download", composed_object>>)
    /\ size_errors' =
          IF sum_sizes(objects_slice) # Len(download_single(store, composed_object))
          THEN size_errors + 1 ELSE size_errors
    /\ UNCHANGED <<listing_vars, store, objects, max_composite_object_size,
                   threading_enabled, sigint_handler, i, objects_slice,
                   composed_object, current_composed_object, uuid_count, lazy,
                   logged, mux_vars>>

\* dataflux_download, lines 419-421 (lazy: 521-523): delete the composite
\* and clear the global
DownloadDelete ==
    /\ dpc = "delete"
    /\ store' = delete_blob(store, composed_object)
    /\ calls' = Append(calls, <<"delete", composed_object>>)
    /\ current_composed_object' = None
    /\ dpc' = "loop"
    /\ UNCHANGED <<listing_vars, objects, max_composite_object_size,
                   threading_enabled, sigint_handler, i, res, objects_slice,
                   composed_object, uuid_count, lazy_vars, logged, mux_vars, size_errors>>

\* dataflux_download_lazy, the yield of lines 477, 498 and 512: the
\* generator hands the next content to its consumer and is suspended
LazyYield ==
    /\ dpc = "yield"
    /\ pending # <<>>
    /\ res' = Append(res, Head(pending))
    /\ pending' = Tail(pending)
    /\ dpc' = "suspended"
    /\ UNCHANGED <<listing_vars, store, objects, max_composite_object_size,
                   threading_enabled, sigint_handler, i, objects_slice,
                   composed_object, current_composed_object, uuid_count, lazy,
                   resume, calls, logged, mux_vars, size_errors>>

\* The consumer's next(): the generator goes on after its yield, with what
\* the yield from has left or else with the statement that follows it
\* (line 478, the while of line 465, or the try of line 521).
ConsumerNext ==
    /\ dpc = "suspended"
    /\ dpc' = IF pending # <<>> THEN "yield"
              ELSE IF resume = "incr" THEN "loop" ELSE resume
    /\ i' = IF pending = <<>> /\ resume = "incr" THEN i + 1 ELSE i
    /\ UNCHANGED <<listing_vars, store, objects, max_composite_object_size,
                   threading_enabled, sigint_handler, res, objects_slice,
                   composed_object, current_composed_object, uuid_count,
                   lazy_vars, calls, logged, mux_vars, size_errors>>

\* The consumer asks for nothing more: it closes or drops the generator,
\* which raises GeneratorExit at the yield, outside every try of
\* dataflux_download_lazy.
ConsumerStop ==
    /\ dpc = "suspended"
    /\ dpc' = "abandoned"
    /\ UNCHANGED <<listing_vars, store, objects, max_composite_object_size,
                   threading_enabled, sigint_handler, i, res, objects_slice,
                   composed_object, current_composed_object, uuid_count,
                   lazy_vars, calls, logged, mux_vars, size_errors>>

\* decompose, line 121: the download of the composite raises, and nothing
\* between line 409 (lazy: 512) and the caller catches it
DecomposeFail ==
    /\ dpc = "decompose"
    /\ calls' = Append(calls, <<"download", composed_object>>)
    /\ dpc' = "raised"
    /\ UNCHANGED <<listing_vars, store, objects, max_composite_object_size,
                   threading_enabled, sigint_handler, i, res, objects_slice,
                   composed_object, current_composed_object, uuid_count,
                   lazy_vars, logged, mux_vars, size_errors>>

\* A failing delete whose exception nothing catches.
DeleteFailPropagates ==
    /\ dpc = "delete"
    /\ calls' = Append(calls, <<"delete", composed_object>>)
    /\ dpc' = "raised"
    /\ UNCHANGED <<listing_vars, store, objects, max_composite_object_size,
                   threading_enabled, sigint_handler, i, res, objects_slice,
                   composed_object, current_composed_object, uuid_count,
                   lazy_vars, logged, mux_vars, size_errors>>

\* dataflux_download, lines 419-424 (lazy: 521-526): the delete raises, the
\* exception is logged, line 421 is skipped and the loop goes on
DeleteFail ==
    /\ dpc = "delete"
    /\ calls' = Append(calls, <<"delete", composed_object>>)
    /\ logged' = logged + 1
    /\ dpc' = "loop"
    /\ UNCHANGED <<listing_vars, store, objects, max_composite_object_size,
                   threading_enabled, sigint_handler, i, res, objects_slice,
                   composed_object, current_composed_object, uuid_count,
                   lazy_vars, mux_vars, size_errors>>

\* A clean_composed_object that deletes nothing.
clean_nothing(name, ok) ==
    UNCHANGED <<store, calls, logged>>

\* clean_composed_object: delete the composite if there is one, and log the
\* exception if the delete raises
clean_composed_object(name, ok) ==
    IF name = None
    THEN UNCHANGED <<store, calls, logged>>
    ELSE /\ calls' = Append(calls, <<"delete", name>>)
         /\ IF ok /\ name \in DOMAIN store
            THEN /\ store' = delete_blob(store, name)
                 /\ UNCHANGED logged
            ELSE /\ logged' = logged + 1
                 /\ UNCHANGED store

\* The positions at which a download call is in progress.
in_progress ==
    dpc \in {"begin", "loop", "compose", "register", "decompose", "delete",
             "yield", "suspended"}

\* SIGINT arrives.  term_signal_handler, if line 360 (lazy: 463) installed
\* it, cleans the composite of the global and exits the process; Python's
\* default handler raises KeyboardInterrupt.
Interrupt ==
    /\ in_progress
    /\ IF sigint_handler = "term_signal_handler"
       THEN /\ \E ok \in BOOLEAN :
                  clean_composed_object(current_composed_object, ok)
            /\ dpc' = "exited"
       ELSE /\ dpc' = "interrupted"
            /\ UNCHANGED <<store, calls, logged>>
    /\ UNCHANGED <<listing_vars, objects, max_composite_object_size,
                   threading_enabled, sigint_handler, i, res, objects_slice,
                   composed_object, current_composed_object, uuid_count,
                   lazy_vars, mux_vars, size_errors>>

(***************************************************************************)
(* The multiplexed downloads: dataflux_download_threaded and               *)
(* dataflux_download_parallel.                                             *)
(***************************************************************************)
\* Bound of threads and of parallelization.
MaxThreads == 3

\* math.ceil(a / b) for the lengths and counts of the model
ceil_div(a, b) == (a + b - 1) \div b

\* objects[a:b] of Python
ListSlice(objs, a, b) == SubSeq(objs, Min(a, Len(objs)) + 1, Min(b, Len(objs)))

RECURSIVE make_chunks(_, _, _, _)
\* lines 245-249 and 303-307: the non-empty ones of the slices
\* objects[k * chunk_size:(k + 1) * chunk_size], k in range(count)
make_chunks(objs, chunk_size, k, count) ==
    IF k >= count THEN <<>>
    ELSE LET chunk == ListSlice(objs, k * chunk_size, (k + 1) * chunk_size)
         IN (IF chunk # <<>> THEN <<chunk>> ELSE <<>>)
                \o make_chunks(objs, chunk_size, k + 1, count)

RECURSIVE chain(_)
\* itertools.chain.from_iterable, and the extend loop of lines 269-272
chain(lists) == IF lists = <<>> THEN <<>> ELSE Head(lists) \o chain(Tail(lists))

\* The inputs of a multiplexed download.
MuxInit ==
    /\ store = DlStore
    /\ objects \in ShortLists
    /\ max_composite_object_size \in (0 .. MaxCompositeSize) \cup {BigCompositeSize}
    /\ threading_enabled = FALSE
    /\ sigint_handler = "default"
    /\ i = 0
    /\ res = <<>>
    /\ objects_slice = <<>>
    /\ composed_object = None
    /\ current_composed_object = None
    /\ uuid_count = 0
    /\ dpc = "idle"
    /\ lazy = FALSE
    /\ pending = <<>>
    /\ resume = "loop"
    /\ calls = <<>>
    /\ logged = 0
    /\ size_errors = 0
    /\ flavour \in {"threaded", "parallel"}
    /\ threads \in 1 .. MaxThreads
    /\ chunks = <<>>
    /\ child_threading_enabled = <<>>
    /\ results_queues = <<>>
    /\ mpc = "begin"
    /\ mres = <<>>
    /\ finished = {}

\* lines 244-249 and 302-307: cut objects into chunks
MuxChunk ==
    /\ mpc = "begin"
    /\ chunks' = make_chunks(objects, ceil_div(Len(objects), threads), 0, threads)
    /\ mpc' = "spawn"
    /\ UNCHANGED <<listing_vars, engine_vars, lazy_vars, calls, logged, size_errors,
                   flavour, threads, child_threading_enabled, results_queues,
                   mres, finished>>

\* dataflux_download_threaded, lines 250-266: one queue and one thread per
\* chunk, df_download_thread passing threading_enabled=True (line 212).
\* dataflux_download_parallel, lines 308-319: multiprocessing.Pool raises
\* ValueError for processes=0; else starmap calls dataflux_download with
\* False as its sixth positional argument, threading_enabled (line 317).
MuxSpawn ==
    /\ mpc = "spawn"
    /\ IF flavour = "parallel" /\ Len(chunks) = 0
       THEN /\ mpc' = "raised"
            /\ UNCHANGED <<child_threading_enabled, results_queues>>
       ELSE /\ child_threading_enabled' =
                  [k \in DOMAIN chunks |-> flavour = "threaded"]
            /\ results_queues' = [k \in DOMAIN chunks |-> <<>>]
            /\ mpc' = "join"
    /\ UNCHANGED <<listing_vars, engine_vars, lazy_vars, calls, logged, size_errors,
                   flavour, threads, chunks, mres, finished>>

\* df_download_thread, lines 205-215, and the call starmap makes: a child
\* runs dataflux_download on its chunk and hands over the result.  The
\* children never write an object another child reads, so each runs as one
\* step.
ChildRun(k) ==
    /\ mpc = "join"
    /\ k \notin finished
    /\ results_queues' =
          [results_queues EXCEPT ![k] =
              <<dataflux_download_run(store, chunks[k],
                                      max_composite_object_size, 0, 0).res>>]
    /\ finished' = finished \cup {k}
    /\ UNCHANGED <<listing_vars, engine_vars, lazy_vars, calls, logged, size_errors,
                   flavour, threads, chunks, child_threading_enabled, mpc,
                   mres>>

\* A store call raises inside a child's dataflux_download: the exception
\* leaves df_download_thread before results_queue.put (line 215) and ends
\* the thread, or is kept by the pool for starmap to raise.
ChildFail(k) ==
    /\ mpc = "join"
    /\ k \notin finished
    /\ finished' = finished \cup {k}
    /\ UNCHANGED <<listing_vars, engine_vars, lazy_vars, calls, logged, size_errors,
                   flavour, threads, chunks, child_threading_enabled,
                   results_queues, mpc, mres>>

\* lines 267-273: Thread.join returns for every thread, however it ended,
\* and the queues are emptied in the order of the chunks.  Line 309:
\* starmap raises the exception of a child that failed, else (line 321) the
\* results are chained.
MuxJoin ==
    /\ mpc = "join"
    /\ \A k \in DOMAIN chunks : k \in finished
    /\ IF flavour = "parallel" /\ \E k \in DOMAIN chunks : results_queues[k] = <<>>
       THEN mpc' = "raised" /\ UNCHANGED mres
       ELSE /\ mres' = chain([k \in DOMAIN chunks |-> chain(results_queues[k])])
            /\ mpc' = "done"
    /\ UNCHANGED <<listing_vars, engine_vars, lazy_vars, calls, logged, size_errors,
                   flavour, threads, chunks, child_threading_enabled,
                   results_queues, finished>>

(***************************************************************************)
(* A RangeSplitter called directly: new_rangesplitter and a sequence of    *)
(* split_range calls on the object it returned.                            *)
(***************************************************************************)
\* Bounds of the calls: the characters and the length of start_range and
\* end_range, the number of splits asked for, and the number of calls.
MaxRangeChar == 3
MaxRangeLen == 2
MaxSplits == 2
MaxCalls == 2

RangeChars == Slash .. MaxRangeChar
RangeStrings == UNION {[1 .. n -> RangeChars] : n \in 0 .. MaxRangeLen}

\* No call has been made.
no_call == [start_range |-> <<>>, end_range |-> <<>>, num_splits |-> 0]
no_ret == [kind |-> "none", points |-> <<>>]

\* No RangeSplitter is called directly.
SplitterIdle ==
    /\ rs = new_rangesplitter(default_alph)
    /\ rs_calls = 0
    /\ rs_before = rs
    /\ rs_call = no_call
    /\ rs_ret = no_ret

\* new_rangesplitter(alphabet) for a non-empty alphabet of unique characters
SplitterInit ==
    /\ \E alphabet \in (SUBSET RangeChars) \ {{}} :
          rs = new_rangesplitter(sorted_chars(alphabet))
    /\ rs_calls = 0
    /\ rs_before = rs
    /\ rs_call = no_call
    /\ rs_ret = no_ret

\* One call rs.split_range(start, end, n).  A call that does not return
\* is the last one its caller makes.
SplitRangeCall(start, end, n) ==
    /\ rs_calls < MaxCalls
    /\ rs_ret.kind # "hang"
    /\ LET split == split_range(rs, start, end, n)
       IN /\ rs' = split.splitter
          /\ rs_ret' = [kind |-> split.kind, points |-> split.points]
    /\ rs_before' = rs
    /\ rs_call' = [start_range |-> start, end_range |-> end, num_splits |-> n]
    /\ rs_calls' = rs_calls + 1
    /\ UNCHANGED <<list_vars, consecutive_failures, download_vars>>

(***************************************************************************)
(* Specifications.                                                         *)
(***************************************************************************)
vars == <<list_vars, consecutive_failures, download_vars, splitter_vars>>

\* A listing run whose list calls all succeed and whose processes die of
\* nothing but the code's own exceptions.
Init == ListInit /\ DownloadIdle /\ SplitterIdle

Next == Controller \/ \E w \in Workers : Worker(w)

Spec == Init /\ [][Next]_vars

\* The objects whose names are made of the default alphabet, and the two
\* of them with one-character names.
FaultUniverse == {o \in Universe : CharsOf(o.name) \subseteq {ChA, ChB}}
FaultPair == {o \in Universe : o.name \in {<<ChA>>, <<ChB>>}}

\* A listing run in which list calls may raise and worker processes may die.
FaultInit ==
    /\ ListInit
    /\ SplitterIdle
    /\ DownloadIdle
    /\ bucket \subseteq FaultUniverse
    /\ (max_parallelism > 1 => bucket \in {{}, FaultPair})
    /\ skip_compose
    /\ ~list_directory_objects
    /\ allowed_storage_classes = DEFAULT_ALLOWED_CLASS

FaultNext == Next \/ \E w \in Workers : ListFail(w) \/ Crash(w)

SpecFaults == FaultInit /\ [][FaultNext]_vars

\* One call of dataflux_download.
DlInit ==
    /\ bucket = {}
    /\ max_parallelism = 1
    /\ skip_compose = TRUE
    /\ list_directory_objects = FALSE
    /\ allowed_storage_classes = DEFAULT_ALLOWED_CLASS
    /\ ListStart
    /\ SplitterIdle
    /\ DownloadInit
    /\ lazy = FALSE

DlNext ==
    \/ DownloadBegin
    \/ DownloadLoop
    \/ DownloadCompose
    \/ DownloadRegister
    \/ DownloadDecompose
    \/ DownloadDelete

SpecDownload == DlInit /\ [][DlNext]_vars

\* One call of dataflux_download or one generator of dataflux_download_lazy,
\* consumed as far as its consumer likes.
LazyInit ==
    /\ bucket = {}
    /\ max_parallelism = 1
    /\ skip_compose = TRUE
    /\ list_directory_objects = FALSE
    /\ allowed_storage_classes = DEFAULT_ALLOWED_CLASS
    /\ ListStart
    /\ SplitterIdle
    /\ DownloadInit
    /\ lazy \in BOOLEAN

LazyNext ==
    \/ DlNext
    \/ LazyYield
    \/ ConsumerNext
    \/ ConsumerStop

SpecLazy == LazyInit /\ [][LazyNext]_vars

\* A call of either engine in which the download of a composite and the
\* delete of a composite may raise, and SIGINT may arrive.
DlFaultNext ==
    \/ LazyNext
    \/ DecomposeFail
    \/ DeleteFail
    \/ Interrupt

\* The faults are explored over the descriptor lists enumerated in full.
DlFaultInit ==
    /\ LazyInit
    /\ objects \in ShortLists

SpecDownloadFaults == DlFaultInit /\ [][DlFaultNext]_vars

\* One call of dataflux_download whose descriptors declare any sizes.
DeclaredInit ==
    /\ bucket = {}
    /\ max_parallelism = 1
    /\ skip_compose = TRUE
    /\ list_directory_objects = FALSE
    /\ allowed_storage_classes = DEFAULT_ALLOWED_CLASS
    /\ ListStart
    /\ SplitterIdle
    /\ store = DlStore
    /\ objects \in AnyLists
    /\ max_composite_object_size \in (0 .. MaxCompositeSize) \cup {BigCompositeSize}
    /\ threading_enabled = FALSE
    /\ sigint_handler = "default"
    /\ i = 0
    /\ res = <<>>
    /\ objects_slice = <<>>
    /\ composed_object = None
    /\ current_composed_object = None
    /\ uuid_count = 0
    /\ dpc = "begin"
    /\ lazy = FALSE
    /\ pending = <<>>
    /\ resume = "loop"
    /\ calls = <<>>
    /\ logged = 0
    /\ size_errors = 0
    /\ MuxIdle

SpecDeclaredSizes == DeclaredInit /\ [][DlNext]_vars

\* Calls of split_range on one RangeSplitter.
SplitterSpecInit ==
    /\ bucket = {}
    /\ max_parallelism = 1
    /\ skip_compose = TRUE
    /\ list_directory_objects = FALSE
    /\ allowed_storage_classes = DEFAULT_ALLOWED_CLASS
    /\ ListStart
    /\ DownloadIdle
    /\ SplitterInit

SplitterNext ==
    \E start \in RangeStrings, end \in RangeStrings, n \in 0 .. MaxSplits :
        SplitRangeCall(start, end, n)

SpecSplitter == SplitterSpecInit /\ [][SplitterNext]_vars

\* One call of dataflux_download_threaded or of dataflux_download_parallel.
MuxSpecInit ==
    /\ bucket = {}
    /\ max_parallelism = 1
    /\ skip_compose = TRUE
    /\ list_directory_objects = FALSE
    /\ allowed_storage_classes = DEFAULT_ALLOWED_CLASS
    /\ ListStart
    /\ SplitterIdle
    /\ MuxInit

MuxNext ==
    \/ MuxChunk
    \/ MuxSpawn
    \/ \E k \in DOMAIN chunks : ChildRun(k)
    \/ MuxJoin

SpecMultiplexed == MuxSpecInit /\ [][MuxNext]_vars

\* A multiplexed download in which a child's engine may fail.
MuxFaultNext == MuxNext \/ \E k \in DOMAIN chunks : ChildFail(k)

SpecMultiplexedFaults == MuxSpecInit /\ [][MuxFaultNext]_vars

\* Bound: the latest check-in time of a worker that was drained earlier.
MaxCheckin == 2

\* The times at which the supervision loop is observed: around checkin_wait
\* after the earlier check-ins.
SupervisionClocks ==
    (Max(2 * retry_maximum, min_checkin_wait) - 1)
        .. (Max(2 * retry_maximum, min_checkin_wait) + MaxCheckin + 1)

\* The supervision loop of run about to call manage_tracking_queues' heartbeat
\* drain: every process was started and has sent its first heartbeat, which
\* is either still queued or was drained at an earlier time; worker 0 is
\* listing and the others poll in wait_for_work.
SupervisionInit ==
    /\ max_parallelism \in 1 .. MaxWorkers
    /\ bucket = {}
    /\ skip_compose = TRUE
    /\ list_directory_objects = FALSE
    /\ allowed_storage_classes = DEFAULT_ALLOWED_CLASS
    /\ pc = [w \in Workers |-> IF w \notin Procs THEN "unborn"
                                ELSE IF w = 0 THEN "list" ELSE "wait_poll"]
    /\ start_range = [w \in Workers |-> IF w = 0 THEN <<>> ELSE None]
    /\ end_range = [w \in Workers |-> IF w = 0 THEN <<>> ELSE None]
    /\ worker_results = [w \in Workers |-> {}]
    /\ max_results = [w \in Workers |-> DefaultMaxResults]
    /\ retries_remaining = [w \in Workers |-> max_retries]
    /\ splitter = [w \in Workers |-> new_rangesplitter(default_alph)]
    /\ send_work_stealing_needed_queue = max_parallelism - 1
    /\ direct_work_available_queue = <<>>
    /\ waiting_for_work \in 0 .. (max_parallelism - 1)
    /\ idle_queue = (max_parallelism - 1) - waiting_for_work
    /\ unidle_queue = 0
    /\ inited \in SUBSET Procs
    /\ heartbeat_queue \in SUBSET Procs
    /\ inited \cup heartbeat_queue = Procs
    /\ checkins \in [inited -> 0 .. MaxCheckin]
    /\ clock \in SupervisionClocks
    /\ results_queue = {}
    /\ metadata_queue = 0
    /\ error_queue = {}
    /\ cpc = "tick_heartbeat"
    /\ next_proc = max_parallelism
    /\ results = {}
    /\ alive = TRUE
    /\ outcome = "running"
    /\ retval = <<>>
    /\ terminate_calls = [w \in Workers |-> 0]
    /\ scanned = {}
    /\ consecutive_failures = [w \in Workers |-> 0]
    /\ DownloadIdle
    /\ SplitterIdle

SupervisionNext == ControllerCheck

SpecSupervision == SupervisionInit /\ [][SupervisionNext]_vars

(***************************************************************************)
(* Claims about the listing engine.                                        *)
(***************************************************************************)
\* What a listing is asked for: the objects under the prefix whose storage
\* class is allowed, that are no directory-like keys unless those were asked
\* for, and no composites unless those were asked for.
Wanted ==
    {o \in bucket :
        /\ StartsWith(o.name, prefix)
        /\ o.storage_class \in allowed_storage_classes
        /\ (list_directory_objects \/ o.name[Len(o.name)] # Slash)
        /\ (~skip_compose \/ ~StartsWith(o.name, COMPOSED_PREFIX))}

WantedTuples == {<<o.name, o.size>> : o \in Wanted}

\* C1: when no list call fails, a run that returns, returns exactly the
\* sorted (name, size) list of the wanted objects, whatever the number of
\* workers and the interleaving.
C1_ListingComplete ==
    outcome = "returned" => retval = sorted_results(WantedTuples)

\* The states of a worker blocked in wait_for_work with its range exhausted.
blocked_in_wait_for_work(w) == pc[w] \in {"wait_need", "wait_idle", "wait_poll"}

\* The step of the supervision loop that publishes the shutdown sentinels.
publishes_sentinels == cpc = "tick_heartbeat" /\ cpc' = "post_drain"

\* The real ranges waiting on the direct-work channel.
pending_ranges ==
    {direct_work_available_queue[n] : n \in
        {j \in DOMAIN direct_work_available_queue :
            direct_work_available_queue[j] # <<None, None>>}}

\* C2: the controller publishes the shutdown sentinels only when every
\* initialized worker is blocked in wait_for_work with its range exhausted
\* and no donated range is pending on the direct-work channel.
C2_ShutdownOnlyWhenIdle ==
    [][publishes_sentinels =>
          /\ \A w \in inited' : blocked_in_wait_for_work(w)
          /\ pending_ranges = {}]_vars

\* The workers that hold a range they still have to paginate.
holds_range(w) ==
    /\ w \in Procs
    /\ start_range[w] # None
    /\ pc[w] \in {"unborn", "start_idle", "start_unidle", "start_hb",
                  "wait_unidle", "list", "steal", "donate"}

covered(k) ==
    \/ k \in scanned
    \/ \E w \in Workers : holds_range(w) /\ InRange(k, start_range[w], end_range[w])
    \/ \E r \in pending_ranges : InRange(k, r[1], r[2])

\* C3: at every moment of a run, every key of the requested namespace is
\* in an interval already scanned, in the remaining range of an active
\* worker, or in a donated range in transit on the direct-work channel.
C3_RangesCoverNamespace ==
    outcome = "running" =>
        \A k \in ProbeKeys : StartsWith(k, prefix) => covered(k)

\* The workers that are paginating a range.
paginating(w) ==
    w \in Procs /\ pc[w] \in {"wait_unidle", "list", "steal", "donate"}

StrMax2(s, t) == IF StrLess(s, t) THEN t ELSE s

\* The least of two range ends, where the empty string is no bound.
EndMin2(e, f) ==
    IF e = <<>> THEN f ELSE IF f = <<>> THEN e
    ELSE IF StrLess(e, f) THEN e ELSE f

\* Two ranges [s1, e1) and [s2, e2) share a key iff the greater start lies
\* below the lesser end.
ranges_overlap(s1, e1, s2, e2) ==
    LET s == StrMax2(s1, s2)
        e == EndMin2(e1, e2)
    IN /\ (e1 = <<>> \/ StrLess(s1, e1))
       /\ (e2 = <<>> \/ StrLess(s2, e2))
       /\ (e = <<>> \/ StrLess(s, e))

\* C4: the remaining ranges of two workers that are paginating never share
\* a key.
C4_ActiveRangesDisjoint ==
    \A v, w \in Workers :
        (v # w /\ paginating(v) /\ paginating(w)) =>
            ~ranges_overlap(start_range[v], end_range[v],
                            start_range[w], end_range[w])

\* Two workers paginate at the same time, one on a range the other donated.
C4_Witness ==
    \E v, w \in Workers :
        /\ v # w
        /\ pc[v] = "list" /\ pc[w] = "list"
        /\ end_range[v] = start_range[w]
        /\ end_range[v] # <<>>

\* C5: with no failing list call a run finishes by returning from
\* ListingController.run; it never ends by raising, after which it can
\* return no more.
C5_RunNeverRaises == outcome # "raised"

(***************************************************************************)
(* Claims about error handling.                                            *)
(***************************************************************************)
\* C6: a run in which an initialized worker has died while paginating never
\* returns a listing normally.
C6_CrashNeverReturns ==
    outcome = "returned" => \A w \in inited : pc[w] # "dead"

\* The step of the supervision loop that finds an exception on error_queue.
finds_error == cpc = "tick_error" /\ error_queue # {} /\ cpc' # cpc

\* C7: when the controller finds an exception on the error channel it
\* raises without returning a result, and this is the one and only
\* terminate() call each process of its list gets.
C7_ErrorTerminatesAll ==
    [][finds_error =>
          /\ outcome' = "raised"
          /\ retval' = retval
          /\ \A p \in Procs : terminate_calls[p] = 0 /\ terminate_calls'[p] = 1]_vars

\* Two processes, one of them out of retries, and the controller has raised
\* before any time has passed.
C7_Witness ==
    /\ outcome = "raised"
    /\ clock = 0
    /\ max_parallelism = 2
    /\ \E w \in Procs : consecutive_failures[w] = max_retries
    /\ \A p \in Procs : terminate_calls[p] = 1

\* Steps of worker w: a list attempt that fails, one that succeeds, and the
\* exception put on error_queue.
fails(w) ==
    pc[w] = "list" /\ consecutive_failures'[w] = consecutive_failures[w] + 1
succeeds(w) == pc[w] = "list" /\ pc'[w] \in {"steal", "flush", "wait_need"}
publishes_error(w) == w \in error_queue' /\ w \notin error_queue

\* C8: a worker publishes an exception, and exits, exactly at its
\* max_retries-th consecutive failed list attempt; an earlier failure keeps
\* the worker on its range with its results and puts nothing on the results
\* channel; a success resets the budget.
C8_RetryBudget ==
    [][\A w \in Workers :
          /\ publishes_error(w) <=>
                (fails(w) /\ consecutive_failures'[w] = max_retries)
          /\ publishes_error(w) => pc'[w] = "exited"
          /\ (fails(w) /\ consecutive_failures'[w] < max_retries) =>
                /\ pc'[w] = "list"
                /\ end_range'[w] = end_range[w]
                /\ worker_results[w] \subseteq worker_results'[w]
                /\ results_queue' = results_queue
          /\ succeeds(w) => retries_remaining'[w] = max_retries]_vars

\* A worker has collected results, then failed max_retries times in a row
\* and exited without putting the results on the results channel.
C8_Witness ==
    \E w \in Procs :
        /\ pc[w] = "exited"
        /\ w \in error_queue
        /\ consecutive_failures[w] = max_retries
        /\ worker_results[w] # {}
        /\ results_queue = {}

(***************************************************************************)
(* Claims about the filters.                                               *)
(***************************************************************************)
\* The objects of the page worker w is about to be returned.
returned_objects(w) == {page_of(w)[n] : n \in DOMAIN page_of(w)}

last_returned_key(w) == remove_prefix(page_of(w)[Len(page_of(w))].name, prefix)

NoDuplicates(seq) ==
    \A m, n \in DOMAIN seq : m # n => seq[m] # seq[n]

\* C9: a list call adds to the worker's results exactly the returned
\* objects of an allowed storage class that are no directory-like keys
\* (unless asked for) and no composites (unless asked for); the cursor
\* moves to the last returned key, filtered out or not; and the returned
\* result holds no (name, size) twice.
C9_FilterAndCursor ==
    /\ [][\A w \in Workers : succeeds(w) =>
            /\ worker_results'[w] = worker_results[w] \cup
                    {<<o.name, o.size>> : o \in returned_objects(w) \cap Wanted}
            /\ page_of(w) # <<>> => start_range'[w] = last_returned_key(w)]_vars
    /\ [](outcome = "returned" => NoDuplicates(retval))

\* A page ended on a key the filters reject: the cursor stands on it, and
\* the worker's results hold the other key of the page only.
C9_Witness ==
    \E w \in Procs :
        /\ pc[w] = "steal"
        /\ worker_results[w] # {}
        /\ \E o \in bucket \ Wanted :
              /\ start_range[w] = o.name
              /\ <<o.name, o.size>> \notin worker_results[w]

(***************************************************************************)
(* Claims about the download engine.                                       *)
(***************************************************************************)
\* C10: dataflux_download returns one payload per descriptor, the k-th
\* being the content of the k-th object.
C10_DownloadInOrder ==
    dpc = "done" =>
        /\ Len(res) = Len(objects)
        /\ \A k \in 1 .. Len(objects) : res[k] = DlStore[objects[k][1]]

\* A call that downloaded its first object directly, composed the two that
\* follow, and returned.
C10_Witness ==
    /\ dpc = "done"
    /\ Len(objects) = 3
    /\ objects[1][2] > max_composite_object_size
    /\ objects[2][1] # objects[3][1]
    /\ uuid_count = 1

\* The blobs under the composite prefix.
composites(blobs) == {n \in DOMAIN blobs : StartsWith(n, COMPOSED_PREFIX)}

\* C11: when dataflux_download has returned and every store call of it
\* succeeded, the bucket holds the objects it held before the call, and no
\* composite.
C11_NoCompositeLeft ==
    dpc = "done" =>
        /\ store = DlStore
        /\ composites(store) = {}

\* A call that composed two batches and returned.
C11_Witness ==
    /\ dpc = "done"
    /\ uuid_count = 2
    /\ Len(calls) = 6

\* The composites the compose calls made so far have created.
created == {calls[k][2] : k \in {n \in DOMAIN calls : calls[n][1] = "compose"}}

\* The composites a delete has been issued for.
delete_issued == {calls[k][2] : k \in {n \in DOMAIN calls : calls[n][1] = "delete"}}

\* C12: when a download call has exited, by its return or by an exception
\* of the download of a composite, a delete has been issued for every
\* composite it created.
C12_DeleteOnEveryExit ==
    dpc \in {"done", "raised"} => created \subseteq delete_issued

\* The compose calls issued so far, each as <<"compose", name, sources>>.
compose_calls == {calls[k] : k \in {n \in DOMAIN calls : calls[n][1] = "compose"}}

\* C13: no object larger than max_composite_object_size is a source of a
\* compose call.
C13_LargeObjectsNeverComposed ==
    \A call \in compose_calls :
        \A k \in DOMAIN call[3] : call[3][k][2] <= max_composite_object_size

\* C14: the declared sizes of the sources of a compose call add up to at
\* most max_composite_object_size.
C14_BatchSizeBounded ==
    \A call \in compose_calls :
        sum_sizes(call[3]) <= max_composite_object_size

\* The store calls of one composed batch: compose, download, delete.
batch_calls(name, sources) ==
    <<<<"compose", name, sources>>, <<"download", name>>, <<"delete", name>>>>

\* C15: a compose call has at least 2 and at most 32 sources, so compose
\* never raises its ValueError inside dataflux_download; 32 objects that fit
\* the maximum together are one composed batch, and 33 are a batch of 32
\* and one direct download.
C15_ComposeSourceCount ==
    /\ \A call \in compose_calls :
          /\ Len(call[3]) >= 2
          /\ Len(call[3]) <= MAX_NUM_OBJECTS_TO_COMPOSE
    /\ dpc # "raised"
    /\ (dpc = "done" /\ sum_sizes(objects) <= max_composite_object_size) =>
          /\ Len(objects) = 1 => calls = <<<<"download", objects[1][1]>>>>
          /\ Len(objects) = MAX_NUM_OBJECTS_TO_COMPOSE =>
                calls = batch_calls(composed_object_name(1), objects)
          /\ Len(objects) = MAX_NUM_OBJECTS_TO_COMPOSE + 1 =>
                calls = batch_calls(composed_object_name(1),
                                    SubSeq(objects, 1, MAX_NUM_OBJECTS_TO_COMPOSE))
                        \o <<<<"download", objects[Len(objects)][1]>>>>

\* A call with 33 objects that fit the maximum together has returned.
C15_Witness ==
    /\ dpc = "done"
    /\ Len(objects) = MAX_NUM_OBJECTS_TO_COMPOSE + 1
    /\ sum_sizes(objects) <= max_composite_object_size
    /\ Len(calls) = 4

\* C16: the threaded and the parallel download return what
\* dataflux_download returns for the whole list, for every list and every
\* number of threads or processes; the chunks are the non-empty contiguous
\* pieces of ceil(n / T) descriptors, and the results are chained in their
\* order.
C16_MultiplexedEquivalence ==
    /\ mpc # "raised"
    /\ mpc \in {"spawn", "join", "done"} =>
          /\ chain(chunks) = objects
          /\ \A k \in DOMAIN chunks :
                /\ chunks[k] # <<>>
                /\ Len(chunks[k]) <= ceil_div(Len(objects), threads)
                /\ k < Len(chunks) =>
                      Len(chunks[k]) = ceil_div(Len(objects), threads)
    /\ mpc = "done" =>
          mres = dataflux_download_run(store, objects,
                                       max_composite_object_size, 0, 0).res

\* C20: every child engine of a multiplexed download runs with
\* threading_enabled true.
C20_ChildrenWithoutHandler ==
    \A k \in DOMAIN child_threading_enabled : child_threading_enabled[k]

\* C17: a generator of dataflux_download_lazy that has been consumed to its
\* end has yielded the payloads dataflux_download returns and issued the
\* store calls dataflux_download issues, in the same order, and has left no
\* composite.
C17_LazyEquivalence ==
    dpc = "done" =>
        LET eager == dataflux_download_run(DlStore, objects,
                                           max_composite_object_size, 0, 0)
        IN /\ res = eager.res
           /\ calls = eager.calls
           /\ composites(store) = {}

\* A generator consumed to its end that yielded a direct download and the
\* slices of a composed batch.
C17_Witness ==
    /\ lazy
    /\ dpc = "done"
    /\ Len(objects) = 3
    /\ uuid_count = 1
    /\ Len(calls) = 4

\* C18: in the lazy engine the composite of a batch is deleted before
\* anything of the next batch is fetched, and it is deleted once the last
\* slice of the batch has been yielded, also when the consumer asks for no
\* further element.
C18_LazyCleanupAfterDrain ==
    lazy =>
        /\ dpc \in {"loop", "compose"} => composites(store) = {}
        /\ (dpc = "abandoned" /\ pending = <<>>) => composites(store) = {}

\* A step in which SIGINT is dispatched.
interrupt_step ==
    /\ in_progress
    /\ dpc' \in {"exited", "interrupted"}

\* C19: with threading_enabled false the handler is installed before the
\* first store call; a SIGINT that arrives from then on makes the handler
\* issue a delete for the composite in current_composed_object, if there is
\* one, and exit the process, a delete that fails being logged; after the
\* exit no store call is issued.
C19_InterruptCleansAndExits ==
    /\ []((~threading_enabled /\ calls # <<>>) =>
              sigint_handler = "term_signal_handler")
    /\ [][(~threading_enabled /\ dpc # "begin" /\ interrupt_step) =>
              /\ dpc' = "exited"
              /\ calls' = IF current_composed_object = None THEN calls
                          ELSE Append(calls, <<"delete", current_composed_object>>)
              /\ current_composed_object # None =>
                    \/ /\ current_composed_object \notin DOMAIN store'
                       /\ logged' = logged
                    \/ /\ store' = store
                       /\ logged' = logged + 1]_vars
    /\ [][dpc = "exited" => (calls' = calls /\ store' = store)]_vars

\* The handler has deleted the composite of the batch in progress and
\* exited.
C19_Witness ==
    /\ dpc = "exited"
    /\ ~threading_enabled
    /\ current_composed_object # None
    /\ current_composed_object \notin DOMAIN store
    /\ logged = 0

\* The bytes [a, b) a composite has, in order.
bytes_of(content, a, b) ==
    [n \in 1 .. (Min(b, Len(content)) - Min(a, Len(content))) |-> content[a + n]]

\* C21: decompose returns one slice per descriptor, the k-th being the
\* bytes of the composite from the sum of the sizes before it to the sum of
\* the sizes up to it; it logs an error exactly when the sizes do not add up
\* to the composite's length, and raises nothing; with accurate sizes the
\* slices of a composite are the contents of its sources in their order.
C21_DecomposeSlices ==
    [][dpc = "decompose" =>
          LET content == store[composed_object]
              decomposed == SubSeq(res', Len(res) + 1, Len(res'))
              before(k) == sum_sizes(SubSeq(objects_slice, 1, k - 1))
              accurate == \A k \in DOMAIN objects_slice :
                              objects_slice[k][2] = Len(store[objects_slice[k][1]])
          IN /\ dpc' = "delete"
             /\ Len(decomposed) = Len(objects_slice)
             /\ \A k \in DOMAIN objects_slice :
                   decomposed[k] = bytes_of(content, before(k),
                                            before(k) + objects_slice[k][2])
             /\ size_errors' = IF sum_sizes(objects_slice) # Len(content)
                               THEN size_errors + 1 ELSE size_errors
             /\ accurate =>
                   \A k \in DOMAIN objects_slice :
                       decomposed[k] = store[objects_slice[k][1]]]_vars

\* decompose has cut a composite shorter than its three descriptors
\* declare, and logged the mismatch.
C21_Witness ==
    /\ dpc = "delete"
    /\ Len(objects_slice) = 3
    /\ sum_sizes(objects_slice) > Len(store[composed_object])
    /\ size_errors = 1
    /\ Len(res) = 3

\* C22: a delete that raises is not propagated: the engine goes on with its
\* loop, res and the index as they were, and a call in which deletes raised
\* returns one payload per object, the payloads of a call without failures.
C22_DeleteFailureNotRaised ==
    /\ [][(dpc = "delete" /\ dpc' \notin {"exited", "interrupted"}) =>
              /\ dpc' = "loop"
              /\ res' = res
              /\ i' = i]_vars
    /\ []((dpc = "done" /\ logged >= 1) =>
              /\ Len(res) = Len(objects)
              /\ res = dataflux_download_run(DlStore, objects,
                                             max_composite_object_size, 0, 0).res)

\* dataflux_download has returned three payloads after the delete of its
\* first batch raised and a further object was downloaded.
C22_Witness ==
    /\ ~lazy
    /\ dpc = "done"
    /\ logged = 1
    /\ Len(res) = 3
    /\ Len(calls) = 4
    /\ calls[3][1] = "delete"
    /\ composites(store) # {}

\* C30: current_composed_object is empty after the delete step of every
\* batch, whether or not the delete raised: it is empty while the loop looks
\* for the next batch or composes it, and when the call has returned.
C30_RegisterClearedAfterDelete ==
    dpc \in {"loop", "compose", "register", "done"} =>
        current_composed_object = None

(***************************************************************************)
(* Claims about the range splitter.                                        *)
(***************************************************************************)
\* What the list a call returned has to satisfy: at most num_splits
\* strings, strictly increasing, each strictly between start and end, and
\* none where the range is empty or start and end are equal once padded.
split_points_in_range ==
    LET start == rs_call.start_range
        end == rs_call.end_range
        points == rs_ret.points
    IN /\ Len(points) <= rs_call.num_splits
       /\ \A k \in 1 .. (Len(points) - 1) : StrLess(points[k], points[k + 1])
       /\ \A k \in DOMAIN points :
             /\ StrLess(start, points[k])
             /\ end = <<>> \/ StrLess(points[k], end)
       /\ (end # <<>> /\ StrLeq(end, start)) => points = <<>>
       /\ is_range_equal_with_padding(rs_before.sorted_alphabet, start, end)
             => points = <<>>

\* C23: for every start, end, n >= 1 and alphabet, split_range returns a
\* list of at most n strings, strictly increasing and strictly inside
\* (start, end), and the empty list for an empty or padded-equal range.
C23_SplitPointsInRange ==
    (rs_calls >= 1 /\ rs_call.num_splits >= 1) =>
        /\ rs_ret.kind = "ok"
        /\ split_points_in_range

\* C24: over the calls of split_range on one RangeSplitter the alphabet
\* only grows: after a call it holds every character it held before, and
\* every character of the call's start and end.
C24_AlphabetOnlyGrows ==
    (rs_calls >= 1 /\ rs_call.num_splits >= 1) =>
        /\ CharsOf(rs_before.sorted_alphabet) \subseteq CharsOf(rs.sorted_alphabet)
        /\ CharsOf(rs_call.start_range \o rs_call.end_range)
              \subseteq CharsOf(rs.sorted_alphabet)

(***************************************************************************)
(* Claims about the worker's protocol.                                     *)
(***************************************************************************)
\* A step worker w takes itself (terminate() is the controller's).
own_step(w) == pc'[w] # pc[w] /\ pc'[w] # "terminated"

C26_DonationProtocol ==
    [][\A w \in Workers :
          /\ (pc'[w] = "steal" /\ pc[w] # "steal") =>
                /\ pc[w] = "list"
                /\ Len(page_of(w)) = max_results[w]
          /\ (pc[w] = "steal" /\ own_step(w)) =>
                IF send_work_stealing_needed_queue = 0
                THEN /\ pc'[w] = "list"
                     /\ direct_work_available_queue' = direct_work_available_queue
                     /\ start_range'[w] = start_range[w]
                     /\ end_range'[w] = end_range[w]
                ELSE /\ pc'[w] = "donate"
                     /\ send_work_stealing_needed_queue'
                           = send_work_stealing_needed_queue - 1
          /\ (pc[w] = "donate" /\ own_step(w)) =>
                LET m == end_range'[w]
                IN /\ pc'[w] = "list"
                   /\ direct_work_available_queue'
                         = Append(direct_work_available_queue, <<m, end_range[w]>>)
                   /\ start_range'[w] = start_range[w]
                   /\ StrLess(start_range[w], m)
                   /\ end_range[w] = <<>> \/ StrLess(m, end_range[w])
                   /\ send_work_stealing_needed_queue'
                         = send_work_stealing_needed_queue]_vars

\* The positions of wait_for_work.
in_wait_for_work(w) == pc[w] \in {"wait_need", "wait_idle", "wait_poll", "wait_unidle"}

\* C27: after a page shorter than max_results the worker puts its results
\* on results_queue before the need-work and idle signals of the
\* wait_for_work that follows: a worker in wait_for_work holds no results
\* locally, and the put neither drops a result nor sends a signal.
C27_FlushBeforeIdle ==
    /\ [](\A w \in Workers : in_wait_for_work(w) => worker_results[w] = {})
    /\ [][\A w \in Workers :
             (pc[w] = "flush" /\ own_step(w)) =>
                 /\ pc'[w] = "wait_need"
                 /\ worker_results[w] \subseteq results_queue'
                 /\ idle_queue' = idle_queue
                 /\ send_work_stealing_needed_queue'
                       = send_work_stealing_needed_queue]_vars

\* The only worker has put its results and told the controller it is idle.
C27_Witness ==
    /\ max_parallelism = 1
    /\ pc[0] = "wait_poll"
    /\ worker_results[0] = {}
    /\ results_queue # {}
    /\ idle_queue >= 1


(***************************************************************************)
(* Claims about the controller's supervision.                              *)
(***************************************************************************)
\* C28: the heartbeat drain adds every drained worker to inited and sets its
\* check-in time to the current time, and the crash check that follows
\* reports a crash (the run terminates its processes and raises) exactly
\* when some initialized worker's last check-in is older than
\* max(60, 2 * the retry policy's maximum backoff) seconds.
C28_CrashDetection ==
    [][cpc = "tick_heartbeat" /\ cpc' # cpc =>
            /\ inited' = inited \cup heartbeat_queue
            /\ \A w \in heartbeat_queue : checkins'[w] = clock
            /\ \A w \in inited \ heartbeat_queue : checkins'[w] = checkins[w]
            /\ (outcome' = "raised") <=>
                   \E w \in inited' :
                      clock - checkins'[w]
                          > Max(min_checkin_wait, 2 * retry_maximum)]_vars

\* A crash was reported for a worker one second past the threshold while
\* another worker, checked in at this very time, was inside it.
C28_Witness ==
    /\ cpc = "done"
    /\ outcome = "raised"
    /\ \E w \in inited :
          clock - checkins[w] = Max(min_checkin_wait, 2 * retry_maximum) + 1
    /\ \E w \in inited : checkins[w] = clock


(***************************************************************************)
(* Claims about the formation of batches.                                  *)
(***************************************************************************)
\* The names of a list of descriptors, in order.
names_of(slice) == [k \in DOMAIN slice |-> slice[k][1]]

RECURSIVE fetched(_)
\* The input objects the store calls cs fetch, in order: the object of a
\* direct download and the sources of a compose call.
fetched(cs) ==
    IF cs = <<>> THEN <<>>
    ELSE (IF cs[1][1] = "compose" THEN names_of(cs[1][3])
          ELSE IF cs[1][1] = "download" /\ cs[1][2] \in DOMAIN DlStore
          THEN <<cs[1][2]>>
          ELSE <<>>) \o fetched(Tail(cs))

RECURSIVE Pow(_, _)
Pow(b, e) == IF e = 0 THEN 1 ELSE b * Pow(b, e - 1)

RECURSIVE SumTo(_, _)
\* term(1) + ... + term(n)
SumTo(term(_), n) == IF n = 0 THEN 0 ELSE SumTo(term, n - 1) + term(n)

\* The value in base Len(sorted_alphabet) of s cut or right-padded with pad
\* to len characters.
base_value(sorted_alphabet, s, len, pad) ==
    LET digit(k) == alphabet_map(sorted_alphabet,
                        IF k <= Len(s) THEN s[k] ELSE pad)
        term(k) == digit(k) * Pow(Len(sorted_alphabet), len - k)
    IN SumTo(term, len)

\* end_int - start_int for the length len.
padded_difference(sorted_alphabet, start, end, len) ==
    LET smallest == sorted_alphabet[1]
        largest == sorted_alphabet[Len(sorted_alphabet)]
    IN base_value(sorted_alphabet, end, len,
                  IF end = <<>> THEN largest ELSE smallest)
           - base_value(sorted_alphabet, start, len, smallest)

\* The last call of split_range went through string_to_minimal_int_range,
\* and that returned.
reached_min_int_range ==
    /\ rs_calls >= 1
    /\ rs_call.num_splits >= 1
    /\ ~(rs_call.end_range # <<>> /\ StrLeq(rs_call.end_range, rs_call.start_range))
    /\ ~is_range_equal_with_padding(rs_before.sorted_alphabet,
                                    rs_call.start_range, rs_call.end_range)
    /\ rs_ret.kind = "ok"

\* C31: string_to_minimal_int_range returns (start_int, end_int, L) where
\* start_int and end_int are the base-|alphabet| values of start and end cut
\* or right-padded to L characters (start with the smallest character, end
\* with the largest one when end is empty and with the smallest otherwise),
\* end_int - start_int > n, and no shorter length gives a difference above n.
C31_MinimalIntRange ==
    reached_min_int_range =>
        LET alphabet == rs.sorted_alphabet
            start == rs_call.start_range
            end == rs_call.end_range
            n == rs_call.num_splits
            r == string_to_minimal_int_range(alphabet, start, end, n)
        IN /\ ~r.diverges
           /\ r.min_len >= 1
           /\ r.start_int = base_value(alphabet, start, r.min_len, alphabet[1])
           /\ r.end_int = base_value(alphabet, end, r.min_len,
                              IF end = <<>> THEN alphabet[Len(alphabet)]
                                            ELSE alphabet[1])
           /\ r.end_int - r.start_int > n
           /\ \A len \in 1 .. (r.min_len - 1) :
                 padded_difference(alphabet, start, end, len) <= n

\* A call whose minimal length is 2 although start is shorter: the search
\* went past the first length and start was padded.
C31_Witness ==
    /\ reached_min_int_range
    /\ Len(rs_call.start_range) = 1
    /\ rs_call.end_range # <<>>
    /\ string_to_minimal_int_range(rs.sorted_alphabet, rs_call.start_range,
                                   rs_call.end_range, rs_call.num_splits).min_len = 2


\* round(a / b) for a >= 0 and b > 0, halves to the even neighbour.
round_div(a, b) ==
    LET q == a \div b
        r == a % b
    IN IF 2 * r < b THEN q
       ELSE IF 2 * r > b THEN q + 1
       ELSE IF q % 2 = 0 THEN q ELSE q + 1

\* C32: the i-th split point of generate_splits, for 1 <= i <= n, is
\* start_int + round(D * i / (n + 1)) with D = end_int - start_int, the
\* quotient taken exactly, written as a string of L characters; the points
\* returned are those of them that lie strictly inside the range.
C32_SplitPointsRounded ==
    reached_min_int_range =>
        LET alphabet == rs.sorted_alphabet
            start == rs_call.start_range
            end == rs_call.end_range
            n == rs_call.num_splits
            r == string_to_minimal_int_range(alphabet, start, end, n)
            D == r.end_int - r.start_int
            rounded(k) == int_to_string(alphabet,
                              r.start_int + round_div(D * k, n + 1), r.min_len)
            inside(m) == StrLess(start, m) /\ (end = <<>> \/ StrLess(m, end))
        IN rs_ret.points = SeqFilter([k \in 1 .. n |-> rounded(k)], inside)


(***************************************************************************)
(* Claims about shutdown and donation.                                     *)
(***************************************************************************)
\* C33: no real range is on the direct-work channel behind a shutdown
\* sentinel.
C33_NoRangeBehindSentinels ==
    \A j \in DOMAIN direct_work_available_queue :
        \A k \in DOMAIN direct_work_available_queue :
            (j < k /\ direct_work_available_queue[j] = <<None, None>>)
                => direct_work_available_queue[k] = <<None, None>>


\* C34: every call of split_range finishes, with a list or with a
\* ValueError, whatever start, end, n and the alphabet are.
C34_SplitRangeFinishes ==
    rs_calls >= 1 => rs_ret.kind \in {"ok", "error"}


\* C35: whenever a worker has taken a need-work request, split_range on its
\* current range returns a non-empty list, and no worker dies of
\* split_points[0].
C35_DonationSplitNonEmpty ==
    \A w \in Workers :
        /\ pc[w] = "donate" =>
              LET split == split_range(splitter[w], start_range[w], end_range[w], 1)
              IN split.kind = "ok" /\ split.points # <<>>
        /\ pc[w] # "dead"


(***************************************************************************)
(* Claims about the results channel.                                       *)
(***************************************************************************)
\* C36: when run has returned normally, every result a worker has put on
\* the results channel is in the list it returned: no flushed result set is
\* left unread.
C36_FlushedResultsReturned ==
    outcome = "returned" =>
        results_queue \subseteq {retval[k] : k \in DOMAIN retval}


(***************************************************************************)
(* Claims about the composite register.                                    *)
(***************************************************************************)
\* C37: with threading_enabled false, every composite the call has created
\* and that is still in the bucket is the one current_composed_object
\* refers to; and after an interrupt whose delete did not fail no composite
\* of the call is left in the bucket.
C37_RegisterTracksComposite ==
    ~threading_enabled =>
        /\ in_progress =>
              \A name \in created \cap DOMAIN store :
                  current_composed_object = name
        /\ (dpc = "exited" /\ logged = 0) => created \cap DOMAIN store = {}


(***************************************************************************)
(* Claims about failures in the multiplexed downloads.                     *)
(***************************************************************************)
\* C38: a call of dataflux_download_threaded that returns, returns exactly
\* len(objects) payloads, also when the engine has failed in the thread of
\* a chunk.
C38_ThreadedAllOrRaise ==
    (flavour = "threaded" /\ mpc = "done") => Len(mres) = Len(objects)


(***************************************************************************)
(* Claims about the counts of the work-stealing protocol.                  *)
(***************************************************************************)
\* The sentinels have not been published: the controller is still spawning
\* or in its supervision loop.
before_sentinels ==
    cpc \in {"spawn", "tick_error", "tick_alive", "tick_idle", "tick_unidle",
             "tick_heartbeat", "tick_results"}

\* The workers blocked in wait_for_work: their need-work request is put and
\* they have not taken a range.
blocked_workers == {w \in Procs : pc[w] \in {"wait_idle", "wait_poll"}}

\* The workers between taking a request (line 245) and publishing the range
\* for it (line 252).
donating_workers == {w \in Procs : pc[w] = "donate"}

\* C39: before the sentinels are published, the pending need-work requests,
\* the requests a donor is answering and the ranges waiting on the
\* direct-work channel are together as many as the workers blocked in
\* wait_for_work.
C39_RequestsMatchWaiters ==
    before_sentinels =>
        send_work_stealing_needed_queue + Cardinality(donating_workers)
            + Len(direct_work_available_queue)
          = Cardinality(blocked_workers)


\* C40: when manage_tracking_queues has drained the idle, unidle and
\* heartbeat channels, waiting_for_work is between 0 and the number of
\* initialized workers; and if the idle and unidle channels are empty then,
\* it counts the workers in wait_for_work: at least those that poll for a
\* range with their idle signal put, at most those anywhere between the
\* need-work request and the unidle signal.
C40_WaitingCounterAccurate ==
    [][(cpc = "tick_heartbeat" /\ cpc' # cpc) =>
          /\ waiting_for_work' >= 0
          /\ waiting_for_work' <= Cardinality(inited')
          /\ (idle_queue' = 0 /\ unidle_queue' = 0) =>
                /\ waiting_for_work'
                      >= Cardinality({w \in Procs : pc'[w] = "wait_poll"})
                /\ waiting_for_work'
                      <= Cardinality({w \in Procs : in_wait_for_work(w)'})]_vars

====
